---------------------------- MODULE Spec2Model ----------------------------
(***************************************************************************)
(* A model of cicd/toml2grammar.py, the phrase-grammar compiler, of        *)
(* cicd/tsv2grammar.py, its tabular sibling, and of the wiki-parse client  *)
(* rocketbot_plugin_bim/wikiparseserver/client.py.                         *)
(*                                                                         *)
(* Python str values are sequences of one-character strings, so that       *)
(* quoting, lower-casing, comparison and concatenation are computed        *)
(* character by character.  Python dicts are functions whose DOMAIN is     *)
(* the key set; a key a dict lacks is a field the record lacks.            *)
(***************************************************************************)
EXTENDS Integers, Sequences, FiniteSets, TLC

VARIABLES
    argv,             \* sys.argv[1:], the input paths
    files,            \* the input artifacts: path -> decoded TOML, or Unreadable
    fs0,              \* the output artifacts main found: path -> text
    fs,               \* the output artifacts now: path -> text
    i,                \* position of main's for loop in argv
    pc,               \* position of main inside the loop body
    grammar_path,     \* main's local
    grammar_name,     \* main's local
    grammar_toml,     \* main's local
    compiled_grammar, \* main's local
    category_lefts,   \* compile_grammar's local, as left at its return
    category_rights,  \* compile_grammar's local, as left at its return
    err,              \* the exception that ended main, or NoError
    log,              \* the calls main completed, in order
    text_in,          \* the str handed to quote_grammar and to grammar_quote
    quote_grammar_ret,\* what toml2grammar's quote_grammar returned, or None
    grammar_quote_ret,\* what tsv2grammar's grammar_quote returned, or None
    grammar_specs,    \* two decoded documents handed to compile_grammar
    line_seqs,        \* per document: what compile_grammar did, or None
    tsv_path,         \* generate_grammar's argument
    tsv_file,         \* the lines of the file at tsv_path
    tsv_fs,           \* the files generate_grammar wrote: path -> text
    tsv_pc,           \* position of generate_grammar
    tsv_grammar_path, \* generate_grammar's local grammar_path
    tsv_grammar_name, \* generate_grammar's local grammar_name
    category_to_heads,\* generate_grammar's local
    category_to_tails,\* generate_grammar's local
    tsv_err,          \* the exception that ended generate_grammar, or NoError
    title,            \* parse_wikitext's argument
    wikitext,         \* what input_file.read() returns
    sock_in,          \* the bytes the server sends before it closes the connection
    received,         \* how many of them the client has taken
    sock_out,         \* the bytes the socket accepted from the client, in order
    wiki_pc,          \* position of parse_wikitext: the call it is in
    title_utf8,       \* parse_wikitext's local
    title_length_bytes,    \* parse_wikitext's local
    wikitext_utf8,         \* parse_wikitext's local
    wikitext_length_bytes, \* parse_wikitext's local
    total_sent,       \* send_strict's local
    position,         \* recv_strict's local
    recv_data,        \* recv_strict's local data, the bytes filled in so far
    xhtml_length_bytes,    \* parse_wikitext's local
    xhtml_bytes,      \* parse_wikitext's local
    output_file,      \* what was written to output_file, or None
    wiki_err          \* the exception that ended parse_wikitext, or NoError

toml_vars == <<argv, files, fs0, fs, i, pc, grammar_path, grammar_name, grammar_toml,
               compiled_grammar, category_lefts, category_rights, err, log>>

quote_vars == <<text_in, quote_grammar_ret, grammar_quote_ret>>

pair_vars == <<grammar_specs, line_seqs>>

tsv_vars == <<tsv_path, tsv_file, tsv_fs, tsv_pc, tsv_grammar_path, tsv_grammar_name,
              category_to_heads, category_to_tails, tsv_err>>

wiki_vars == <<title, wikitext, sock_in, received, sock_out, wiki_pc, title_utf8,
               title_length_bytes, wikitext_utf8, wikitext_length_bytes, total_sent,
               position, recv_data, xhtml_length_bytes, xhtml_bytes, output_file, wiki_err>>

vars == <<toml_vars, quote_vars, pair_vars, tsv_vars, wiki_vars>>

\* what the steps of one program leave alone: the state of the others
beside_toml == <<quote_vars, pair_vars, tsv_vars, wiki_vars>>

beside_quote == <<toml_vars, pair_vars, tsv_vars, wiki_vars>>

beside_pair == <<toml_vars, quote_vars, tsv_vars, wiki_vars>>

beside_tsv == <<toml_vars, quote_vars, pair_vars, wiki_vars>>

beside_wiki == <<toml_vars, quote_vars, pair_vars, tsv_vars>>

(***************************************************************************)
(* Bounds of the model.                                                    *)
(***************************************************************************)
MaxArgs == 2

MaxEntries == 3

MaxPhrases == 3

MaxAnnotated == 2

MaxTop == 2

(***************************************************************************)
(* Python str: code points, comparison, lower().                           *)
(***************************************************************************)
Ord ==
    (" " :> 32) @@ ("\"" :> 34) @@ ("." :> 46) @@ ("/" :> 47) @@
    ("A" :> 65) @@ ("B" :> 66) @@ ("L" :> 76) @@ ("M" :> 77) @@
    ("O" :> 79) @@ ("T" :> 84) @@ ("\\" :> 92) @@ ("_" :> 95) @@
    ("a" :> 97) @@ ("b" :> 98) @@ ("c" :> 99) @@ ("f" :> 102) @@
    ("g" :> 103) @@ ("h" :> 104) @@ ("l" :> 108) @@ ("m" :> 109) @@
    ("o" :> 111) @@ ("p" :> 112) @@ ("q" :> 113) @@ ("s" :> 115) @@ ("t" :> 116) @@
    ("x" :> 120) @@ ("y" :> 121)

LowerChar(c) ==
    CASE c = "A" -> "a"
      [] c = "B" -> "b"
      [] c = "L" -> "l"
      [] c = "M" -> "m"
      [] c = "O" -> "o"
      [] c = "S" -> "s"
      [] c = "T" -> "t"
      [] c = "V" -> "v"
      [] OTHER -> c

lower(s) == [k \in 1..Len(s) |-> LowerChar(s[k])]

RECURSIVE StrLt(_, _)
StrLt(s, t) ==
    IF t = <<>> THEN FALSE
    ELSE IF s = <<>> THEN TRUE
    ELSE IF Head(s) = Head(t) THEN StrLt(Tail(s), Tail(t))
    ELSE Ord[Head(s)] < Ord[Head(t)]

StrLe(s, t) == s = t \/ StrLt(s, t)

\* tuple-of-str comparison (SentencePart.options)
RECURSIVE TupleLt(_, _)
TupleLt(s, t) ==
    IF t = <<>> THEN FALSE
    ELSE IF s = <<>> THEN TRUE
    ELSE IF Head(s) = Head(t) THEN TupleLt(Tail(s), Tail(t))
    ELSE StrLt(Head(s), Head(t))

\* NamedTuple comparison: text first, then options
PartLt(p, q) ==
    \/ StrLt(p.text, q.text)
    \/ p.text = q.text /\ TupleLt(p.options, q.options)

\* sorted() of a list of str
RECURSIVE InsertStr(_, _)
InsertStr(s, sortedSeq) ==
    IF sortedSeq = <<>> THEN <<s>>
    ELSE IF StrLt(s, Head(sortedSeq)) THEN <<s>> \o sortedSeq
    ELSE <<Head(sortedSeq)>> \o InsertStr(s, Tail(sortedSeq))

RECURSIVE sorted(_)
sorted(l) ==
    IF l = <<>> THEN <<>>
    ELSE InsertStr(l[Len(l)], sorted(SubSeq(l, 1, Len(l) - 1)))

Get(d, key, default) == IF key \in DOMAIN d THEN d[key] ELSE default

NoError == "no error"

None == <<>>

Some(v) == <<v>>

(***************************************************************************)
(* validate_flags and validate_grammar.  Each returns the prefix of the    *)
(* message of the ValueError it raises, or NoError.                        *)
(***************************************************************************)
RECURSIVE validate_flags(_, _)
validate_flags(all_flags, flags) ==
    IF flags = <<>> THEN NoError
    ELSE LET flag_list == Head(flags) IN
         IF flag_list # sorted(flag_list) THEN "sorting error"
         ELSE IF \E k \in 1..Len(flag_list) : flag_list[k] \notin DOMAIN all_flags
              THEN "flag error"
         ELSE validate_flags(all_flags, Tail(flags))

TopLevelCheck(top_level_categories) ==
    top_level_categories # sorted(top_level_categories)

CategoryOrderCheck(previous_category, category) ==
    StrLt(category, previous_category)

ListOrderCheck(phrases) ==
    LET lowered == [k \in 1..Len(phrases) |-> lower(phrases[k])]
    IN  lowered # sorted(lowered)

\* a first left equal to the previous one is let through
FirstLeftCheckStrict(left, previous_left) ==
    StrLt(lower(left), lower(previous_left))

FirstLeftCheck(left, previous_left) ==
    StrLe(lower(left), lower(previous_left))

\* the length of the flags list is not compared with the phrases'
FlagsCheckNoLength(entry, key, phrases, flags) ==
    IF key \notin DOMAIN entry THEN NoError
    ELSE validate_flags(flags, entry[key])

FlagsCheck(entry, key, phrases, flags) ==
    IF key \notin DOMAIN entry THEN NoError
    ELSE IF Len(entry[key]) # Len(phrases) THEN "flag error"
    ELSE validate_flags(flags, entry[key])

\* the entry's own category is not looked for
RECURSIVE AddCategsLoopNoOwn(_, _)
AddCategsLoopNoOwn(lists, category) ==
    IF lists = <<>> THEN NoError
    ELSE IF Head(lists) # sorted(Head(lists)) THEN "category error"
    ELSE AddCategsLoopNoOwn(Tail(lists), category)

RECURSIVE AddCategsLoop(_, _)
AddCategsLoop(lists, category) ==
    IF lists = <<>> THEN NoError
    ELSE LET categs == Head(lists) IN
         IF categs # sorted(categs) THEN "category error"
         ELSE IF \E k \in 1..Len(categs) : categs[k] = category
              THEN "category error"
         ELSE AddCategsLoop(Tail(lists), category)

LeftsAddCategoriesCheck(entry) ==
    IF "lefts_add_categories" \notin DOMAIN entry THEN NoError
    ELSE IF Len(entry.lefts_add_categories) # Len(entry.lefts) THEN "category error"
    ELSE AddCategsLoop(entry.lefts_add_categories, entry.category)

RightsAddCategoriesCheck(entry) ==
    IF "rights_add_categories" \notin DOMAIN entry THEN NoError
    ELSE IF Len(entry.rights_add_categories) # Len(entry.rights) THEN "flag error"
    ELSE AddCategsLoop(entry.rights_add_categories, entry.category)

\* previous_left as the loop body leaves it
NextPreviousLeft(entry, previous_category, previous_left) ==
    LET reset == IF previous_category # None /\ previous_category[1] # entry.category
                 THEN None ELSE previous_left
    IN  IF entry.lefts # <<>> THEN Some(entry.lefts[1]) ELSE reset

\* one iteration of the loop over grammar_toml["entries"]
ValidateEntry(entry, flags, previous_category, previous_left) ==
    LET reset == IF previous_category # None /\ previous_category[1] # entry.category
                 THEN None ELSE previous_left
    IN
    IF previous_category # None /\ CategoryOrderCheck(previous_category[1], entry.category)
    THEN "sorting error"
    ELSE IF ListOrderCheck(entry.lefts) THEN "sorting error"
    ELSE IF ListOrderCheck(entry.rights) THEN "sorting error"
    ELSE IF entry.lefts # <<>> /\ reset # None /\ FirstLeftCheck(entry.lefts[1], reset[1])
    THEN "sorting error"
    ELSE IF FlagsCheck(entry, "lefts_flags", entry.lefts, flags) # NoError
    THEN FlagsCheck(entry, "lefts_flags", entry.lefts, flags)
    ELSE IF FlagsCheck(entry, "rights_flags", entry.rights, flags) # NoError
    THEN FlagsCheck(entry, "rights_flags", entry.rights, flags)
    ELSE IF LeftsAddCategoriesCheck(entry) # NoError
    THEN LeftsAddCategoriesCheck(entry)
    ELSE RightsAddCategoriesCheck(entry)

RECURSIVE ValidateEntries(_, _, _, _)
ValidateEntries(entries, flags, previous_category, previous_left) ==
    IF entries = <<>> THEN NoError
    ELSE LET entry == Head(entries)
             e == ValidateEntry(entry, flags, previous_category, previous_left)
         IN  IF e # NoError THEN e
             ELSE ValidateEntries(Tail(entries), flags, Some(entry.category),
                                  NextPreviousLeft(entry, previous_category, previous_left))

validate_grammar(toml) ==
    IF TopLevelCheck(toml.metadata.top_level_categories)
    THEN "metadata.top_level_categories is not sorted"
    ELSE ValidateEntries(toml.entries, Get(toml.metadata, "flags", <<>>), None, None)

(***************************************************************************)
(* quote_grammar and compile_grammar.                                      *)
(***************************************************************************)
\* a backslash is appended as it is
QuoteCharBackslashKept(c) ==
    CASE c = "\"" -> <<"\\", "\"">>
      [] OTHER -> <<c>>

QuoteChar(c) ==
    CASE c = "\\" -> <<"\\", "\\">>
      [] c = "\"" -> <<"\\", "\"">>
      [] OTHER -> <<c>>

RECURSIVE QuoteChars(_)
QuoteChars(s) ==
    IF s = <<>> THEN <<>> ELSE QuoteChar(Head(s)) \o QuoteChars(Tail(s))

quote_grammar(s) == <<"\"">> \o QuoteChars(s) \o <<"\"">>

SentencePart(text, options) == [text |-> text, options |-> options]

Min(a, b) == IF a < b THEN a ELSE b

\* [[] for _ in phrases]
EmptyLists(phrases) == [k \in 1..Len(phrases) |-> <<>>]

\* sorted(flag_to_opt[f] for f in flags)
ResolveOpts(flag_to_opt, flags) ==
    sorted([k \in 1..Len(flags) |-> flag_to_opt[flags[k]]])

\* d[category].add(part) on a defaultdict(set)
AddPart(d, category, part) ==
    IF category \in DOMAIN d
    THEN [d EXCEPT ![category] = @ \cup {part}]
    ELSE d @@ (category :> {part})

RECURSIVE AddToCategs(_, _, _)
AddToCategs(d, add_categs, part) ==
    IF add_categs = <<>> THEN d
    ELSE AddToCategs(AddPart(d, Head(add_categs), part), Tail(add_categs), part)

\* the phrase is inserted under the entry's category alone
InsertPartBaseOnly(d, category, add_categs, part) == AddPart(d, category, part)

\* the categories one phrase is inserted under
InsertPart(d, category, add_categs, part) ==
    AddToCategs(AddPart(d, category, part), add_categs, part)

\* for phrase, opts, add_categs in zip(phrases, opts, add_categories)
RECURSIVE IndexZip(_, _, _, _, _, _, _)
IndexZip(d, category, phrases, flags, add_categories, flag_to_opt, k) ==
    IF k > Min(Len(phrases), Min(Len(flags), Len(add_categories))) THEN d
    ELSE IndexZip(InsertPart(d, category, add_categories[k],
                             SentencePart(phrases[k], ResolveOpts(flag_to_opt, flags[k]))),
                  category, phrases, flags, add_categories, flag_to_opt, k + 1)

IndexLefts(d, entry, flag_to_opt) ==
    IndexZip(d, entry.category, entry.lefts,
             Get(entry, "lefts_flags", EmptyLists(entry.lefts)),
             Get(entry, "lefts_add_categories", EmptyLists(entry.lefts)),
             flag_to_opt, 1)

IndexRights(d, entry, flag_to_opt) ==
    IndexZip(d, entry.category, entry.rights,
             Get(entry, "rights_flags", EmptyLists(entry.rights)),
             Get(entry, "rights_add_categories", EmptyLists(entry.rights)),
             flag_to_opt, 1)

RECURSIVE BuildLefts(_, _, _)
BuildLefts(d, entries, flag_to_opt) ==
    IF entries = <<>> THEN d
    ELSE BuildLefts(IndexLefts(d, Head(entries), flag_to_opt), Tail(entries), flag_to_opt)

RECURSIVE BuildRights(_, _, _)
BuildRights(d, entries, flag_to_opt) ==
    IF entries = <<>> THEN d
    ELSE BuildRights(IndexRights(d, Head(entries), flag_to_opt), Tail(entries), flag_to_opt)

\* flag_to_opt[f] raises KeyError for some flag some entry uses
UnknownFlagUsed(entries, flag_to_opt) ==
    \E e \in 1..Len(entries) : \E key \in {"lefts_flags", "rights_flags"} :
        /\ key \in DOMAIN entries[e]
        /\ \E k \in 1..Len(entries[e][key]) : \E f \in 1..Len(entries[e][key][k]) :
              entries[e][key][k][f] \notin DOMAIN flag_to_opt

\* sorted() of a set of str, and of a set of SentencePart
RECURSIVE SortedStrSet(_)
SortedStrSet(S) ==
    IF S = {} THEN <<>>
    ELSE LET m == CHOOSE x \in S : \A y \in S : ~StrLt(y, x)
         IN  <<m>> \o SortedStrSet(S \ {m})

RECURSIVE SortedParts(_)
SortedParts(S) ==
    IF S = {} THEN <<>>
    ELSE LET m == CHOOSE x \in S : \A y \in S : ~PartLt(y, x)
         IN  <<m>> \o SortedParts(S \ {m})

\* sep.join(parts)
RECURSIVE Join(_, _)
Join(sep, parts) ==
    IF parts = <<>> THEN <<>>
    ELSE IF Len(parts) = 1 THEN parts[1]
    ELSE parts[1] \o sep \o Join(sep, Tail(parts))

RECURSIVE Concat(_)
Concat(seqs) == IF seqs = <<>> THEN <<>> ELSE Head(seqs) \o Concat(Tail(seqs))

CommentLine ==
    <<"/", "/", " ", "g", "e", "n", "e", "r", "a", "t", "e", "d", " ", "f", "r", "o",
      "m", " ", "a", " ", "T", "O", "M", "L", " ", "f", "i", "l", "e", " ", "-", "-",
      " ", "n", "o", " ", "s", "e", "n", "s", "e", " ", "i", "n", " ", "e", "d", "i",
      "t", "i", "n", "g", " ", "t", "h", "i", "s", "!">>

PairName(tlc) == tlc \o <<"_", "p", "a", "i", "r">>

RootLine(name, top_level_categories) ==
    name \o <<" ", ":", " ">>
         \o Join(<<" ", "|", " ">>,
                 [k \in 1..Len(top_level_categories) |-> PairName(top_level_categories[k])])
         \o <<" ", ";">>

GlueLine(glue) == <<"_", "g", "l", "u", "e", " ", ":", " ">> \o quote_grammar(glue) \o <<" ", ";">>

\* the pair production with the nonterminal names of tsv2grammar
PairLineHeadTail(tlc) ==
    tlc \o <<"_", "p", "a", "i", "r", " ", ":", " ">>
        \o tlc \o <<"_", "h", "e", "a", "d", " ", "_", "g", "l", "u", "e", " ">>
        \o tlc \o <<"_", "t", "a", "i", "l", " ", ";">>

PairLine(tlc) ==
    tlc \o <<"_", "p", "a", "i", "r", " ", ":", " ">>
        \o tlc \o <<"_", "l", "e", "f", "t", " ", "_", "g", "l", "u", "e", " ">>
        \o tlc \o <<"_", "r", "i", "g", "h", "t", " ", ";">>

PairLines(top_level_categories) ==
    [k \in 1..Len(top_level_categories) |-> PairLine(top_level_categories[k])]

\* "".join(f" !opt_{f}" for f in sorted(phrase.options))
FlagStr(options) ==
    Concat([k \in 1..Len(options) |-> <<" ", "!", "o", "p", "t", "_">> \o sorted(options)[k]])

AlternativeLine(first, phrase) ==
    <<" ", " ", " ", " ">> \o (IF first THEN <<":">> ELSE <<"|">>)
        \o FlagStr(phrase.options) \o <<" ">> \o quote_grammar(phrase.text)

EndName(end) ==
    IF end = "left" THEN <<"_", "l", "e", "f", "t">> ELSE <<"_", "r", "i", "g", "h", "t">>

\* the lines of one role of one category; phrases is d.get(category, None)
ProductionLines(category, end, d) ==
    IF category \notin DOMAIN d THEN <<>>
    ELSE LET phrases == SortedParts(d[category])
         IN  <<category \o EndName(end)>>
                 \o [k \in 1..Len(phrases) |-> AlternativeLine(k = 1, phrases[k])]
                 \o << <<" ", " ", " ", " ", ";">> >>

\* the categories of the left index alone
AllCategoriesLeftsOnly(lefts, rights) == DOMAIN lefts

AllCategories(lefts, rights) == DOMAIN lefts \cup DOMAIN rights

RoleLines(lefts, rights) ==
    LET categories == SortedStrSet(AllCategories(lefts, rights))
    IN  Concat([k \in 1..Len(categories) |->
                  ProductionLines(categories[k], "left", lefts)
                      \o ProductionLines(categories[k], "right", rights)])

\* compile_grammar: the KeyError it raises, or its locals and its return value
compile_grammar(name, toml) ==
    IF "flags" \notin DOMAIN toml.metadata \/ "glue" \notin DOMAIN toml.metadata
    THEN [raised |-> "KeyError", ret |-> <<>>, category_lefts |-> <<>>, category_rights |-> <<>>]
    ELSE IF UnknownFlagUsed(toml.entries, toml.metadata.flags)
    THEN [raised |-> "KeyError", ret |-> <<>>, category_lefts |-> <<>>, category_rights |-> <<>>]
    ELSE LET flag_to_opt == toml.metadata.flags
             lefts == BuildLefts(<<>>, toml.entries, flag_to_opt)
             rights == BuildRights(<<>>, toml.entries, flag_to_opt)
             top == toml.metadata.top_level_categories
         IN  [raised |-> NoError,
              ret |-> <<CommentLine, <<>>, RootLine(name, top), <<>>,
                        GlueLine(toml.metadata.glue), <<>> >>
                          \o PairLines(top) \o << <<>> >> \o RoleLines(lefts, rights),
              category_lefts |-> lefts,
              category_rights |-> rights]

(***************************************************************************)
(* main: the paths it derives, save_grammar, and its loop.                 *)
(***************************************************************************)
DotToml == <<".", "t", "o", "m", "l">>

DotGrammar == <<".", "g", "r", "a", "m", "m", "a", "r">>

\* arg.lower().endswith(".toml")
EndsWithToml(arg) ==
    /\ Len(arg) >= Len(DotToml)
    /\ SubSeq(lower(arg), Len(arg) - Len(DotToml) + 1, Len(arg)) = DotToml

GrammarPath(arg) ==
    IF EndsWithToml(arg)
    THEN SubSeq(arg, 1, Len(arg) - Len(DotToml)) \o DotGrammar
    ELSE arg \o DotGrammar

\* s.rfind(c) + 1: the position after the last c, 0 when there is none (1-based: the last c)
RFind(s, c) ==
    IF \E k \in 1..Len(s) : s[k] = c
    THEN CHOOSE k \in 1..Len(s) : s[k] = c /\ \A m \in (k + 1)..Len(s) : s[m] # c
    ELSE 0

basename(p) == SubSeq(p, RFind(p, "/") + 1, Len(p))

\* os.path.splitext(p)[0]: the last dot splits, unless only dots precede it in the file name
splitext0(p) ==
    LET sepIndex == RFind(p, "/")
        dotIndex == RFind(p, ".")
    IN  IF dotIndex > sepIndex
           /\ \E k \in (sepIndex + 1)..(dotIndex - 1) : p[k] # "."
        THEN SubSeq(p, 1, dotIndex - 1)
        ELSE p

GrammarName(arg) == splitext0(basename(arg))

\* the lines joined by newlines, the last one unterminated
FileTextJoined(lines) == Join(<<"\n">>, lines)

\* the text save_grammar writes
FileText(lines) == Concat([k \in 1..Len(lines) |-> lines[k] \o <<"\n">>])

save_grammar(files_out, path, lines) == (path :> FileText(lines)) @@ files_out

Unreadable == [unreadable |-> TRUE]

\* where main goes after a call that returned e
AfterCall(e, next) == IF e = NoError THEN next ELSE "failed"

\* a ValueError of validate_grammar propagates out of main
AfterValidateIgnored(e) == "compile"

AfterValidate(e) == AfterCall(e, "compile")

Logged(l, op, e) == IF e = NoError THEN Append(l, [op |-> op, arg |-> i]) ELSE l

LoadToml ==
    /\ pc = "load"
    /\ LET arg == argv[i]
           e == IF files[arg] = Unreadable THEN "load error" ELSE NoError
       IN  /\ grammar_path' = GrammarPath(arg)
           /\ grammar_name' = GrammarName(arg)
           /\ grammar_toml' = IF e = NoError THEN files[arg] ELSE grammar_toml
           /\ err' = e
           /\ pc' = AfterCall(e, "validate")
           /\ log' = Logged(log, "load_toml", e)
    /\ UNCHANGED <<argv, files, fs0, fs, i, compiled_grammar, category_lefts, category_rights>>
    /\ UNCHANGED beside_toml

ValidateGrammar ==
    /\ pc = "validate"
    /\ LET e == validate_grammar(grammar_toml)
       IN  /\ err' = e
           /\ pc' = AfterValidate(e)
           /\ log' = Logged(log, "validate_grammar", e)
    /\ UNCHANGED <<argv, files, fs0, fs, i, grammar_path, grammar_name, grammar_toml,
                   compiled_grammar, category_lefts, category_rights>>
    /\ UNCHANGED beside_toml

CompileGrammar ==
    /\ pc = "compile"
    /\ LET r == compile_grammar(grammar_name, grammar_toml)
       IN  /\ err' = r.raised
           /\ pc' = AfterCall(r.raised, "save")
           /\ log' = Logged(log, "compile_grammar", r.raised)
           /\ compiled_grammar' = r.ret
           /\ category_lefts' = r.category_lefts
           /\ category_rights' = r.category_rights
    /\ UNCHANGED <<argv, files, fs0, fs, i, grammar_path, grammar_name, grammar_toml>>
    /\ UNCHANGED beside_toml

SaveGrammar ==
    /\ pc = "save"
    /\ fs' = save_grammar(fs, grammar_path, compiled_grammar)
    /\ log' = Logged(log, "save_grammar", NoError)
    /\ i' = i + 1
    /\ pc' = IF i + 1 > Len(argv) THEN "done" ELSE "load"
    /\ UNCHANGED <<argv, files, fs0, grammar_path, grammar_name, grammar_toml,
                   compiled_grammar, category_lefts, category_rights, err>>
    /\ UNCHANGED beside_toml

Next ==
    \/ LoadToml
    \/ ValidateGrammar
    \/ CompileGrammar
    \/ SaveGrammar

(***************************************************************************)
(* The inputs: decoded TOML documents, within the bounds.                  *)
(***************************************************************************)
SeqsUpTo(S, n) == UNION {[1..k -> S] : k \in 0..n}

CatA == <<"a">>

CatB == <<"b">>

CatC == <<"c">>

FlagF == <<"f">>

FlagG == <<"g">>

FlagH == <<"h">>

\* phrase texts: "B" sorts before "a", and after it once lower-cased
Texts == {<<"a">>, <<"B">>}

\* a phrase that needs quoting: b"
QuotedText == <<"b", "\"">>

Glues == {<<" ">>, <<"\\", "\"">>}

\* metadata.flags as declared: f -> "y", g -> "x" (h stays undeclared)
StdFlags == (FlagF :> <<"y">>) @@ (FlagG :> <<"x">>)

Metadata(top, glue) == [top_level_categories |-> top, glue |-> glue]

WithFlags(metadata, flags) == metadata @@ ("flags" :> flags)

StdMetadata == WithFlags(Metadata(<<CatA>>, <<" ">>), StdFlags)

PlainEntry(c, l, r) == [category |-> c, lefts |-> l, rights |-> r]

\* plain entries holding exactly n phrases
PlainEntriesOfSize(n) ==
    UNION {{PlainEntry(c, l, r) : c \in {CatA, CatB}, l \in [1..k -> Texts],
                                  r \in [1..(n - k) -> Texts]} : k \in 0..n}

\* sequences of at most n plain entries holding at most budget phrases in all
RECURSIVE PlainEntrySeqs(_, _)
PlainEntrySeqs(n, budget) ==
    IF n = 0 THEN {<<>>}
    ELSE {<<>>} \cup
         UNION {{<<e>> \o rest : e \in PlainEntriesOfSize(k),
                                  rest \in PlainEntrySeqs(n - 1, budget - k)}
                : k \in 0..budget}

\* family 1: the order of entries and of phrases
OrderingToml(es) == [metadata |-> StdMetadata, entries |-> es]

FlagLists == {<<>>, <<FlagF>>, <<FlagF, FlagG>>, <<FlagG, FlagF>>, <<FlagH>>}

AddLists == {<<>>, <<CatB>>, <<CatB, CatC>>, <<CatC, CatB>>}

\* a parallel list for n phrases: at most one phrase annotated, or a wrong length
ParallelLists(n, choices) ==
    {[k \in 1..n |-> <<>>]}
        \cup {[k \in 1..n |-> IF k = j THEN c ELSE <<>>] : j \in 1..n, c \in choices \ {<<>>}}
        \cup {[k \in 1..(n + 1) |-> <<>>]}
        \cup (IF n > 0 THEN {[k \in 1..(n - 1) |-> <<>>]} ELSE {})

\* the optional key of an entry: absent, or one of the lists
OptionalKey(key, n, choices) ==
    {<<>>} \cup {(key :> v) : v \in ParallelLists(n, choices)}

SmallSides == {<<>>, <<QuotedText>>}

LeftAnnotated ==
    UNION {{PlainEntry(c, l, r) @@ f @@ a :
               c \in {CatA, CatB}, r \in SmallSides,
               f \in OptionalKey("lefts_flags", Len(l), FlagLists),
               a \in OptionalKey("lefts_add_categories", Len(l), AddLists)}
           : l \in SeqsUpTo(Texts, MaxAnnotated)}

RightAnnotated ==
    UNION {{PlainEntry(c, l, r) @@ f @@ a :
               c \in {CatA, CatB}, l \in SmallSides,
               f \in OptionalKey("rights_flags", Len(r), FlagLists),
               a \in OptionalKey("rights_add_categories", Len(r), AddLists)}
           : r \in SeqsUpTo(Texts, MaxAnnotated)}

\* what follows the annotated entry: nothing, or an entry of category b that repeats "a"
Followers ==
    {[k \in 1..n |-> PlainEntry(CatB, << <<"a">> >>, << <<"a">> >>)]
        : n \in 0..1}

\* family 2: flags and additional categories, with metadata.flags and without
AnnotatedToml(m, e, rest) == [metadata |-> m, entries |-> <<e>> \o rest]

AnnotatedMetadata == {StdMetadata, Metadata(<<CatA>>, <<" ">>)}

SampleEntries ==
    { <<>>,
      <<PlainEntry(CatA, << <<"a">> >>, <<QuotedText>>)>>,
      <<PlainEntry(CatA, << <<"a">> >>, << <<"B">> >>) @@ ("lefts_flags" :> <<<<FlagF>>>>)>>,
      <<PlainEntry(CatA, << <<"a">> >>, <<>>)
            @@ ("lefts_add_categories" :> <<<<CatB>>>>),
        PlainEntry(CatB, <<>>, << <<"B">> >>)>> }

\* family 3: the metadata
MetadataTomls ==
    {[metadata |-> m, entries |-> es] :
        m \in UNION {{Metadata(top, glue), WithFlags(Metadata(top, glue), <<>>),
                      WithFlags(Metadata(top, glue), StdFlags)}
                     : top \in SeqsUpTo({CatA, CatB}, MaxTop), glue \in Glues},
        es \in SampleEntries}

Greeting == <<"g", "r", "e", "e", "t", "i", "n", "g">>

\* the end-to-end example: one top-level category greeting, flag f -> formal, glue " "
ExampleToml ==
    [metadata |-> WithFlags(Metadata(<<Greeting>>, <<" ">>),
                            (FlagF :> <<"f", "o", "r", "m", "a", "l">>)),
     entries |-> <<PlainEntry(Greeting, << <<"h", "i">> >>, << <<"t", "h", "e", "r", "e">> >>)
                      @@ ("lefts_flags" :> <<<<FlagF>>>>)>>]

InPath == <<"p", ".", "t", "o", "m", "l">>

\* what load_toml finds at the input path: a document of one of the families, or
\* nothing it can decode
InputFile ==
    \/ files = (InPath :> Unreadable)
    \/ \E toml \in MetadataTomls \cup {ExampleToml} : files = (InPath :> toml)
    \/ files = (InPath :> OrderingToml(<<>>))
    \/ \E k \in 0..MaxPhrases :
          \E e \in PlainEntriesOfSize(k), rest \in PlainEntrySeqs(MaxEntries - 1, MaxPhrases - k) :
              files = (InPath :> OrderingToml(<<e>> \o rest))
    \/ \E m \in AnnotatedMetadata, e \in LeftAnnotated \cup RightAnnotated, rest \in Followers :
          files = (InPath :> AnnotatedToml(m, e, rest))

Locals ==
    /\ i = 1
    /\ grammar_path = <<>>
    /\ grammar_name = <<>>
    /\ grammar_toml = Unreadable
    /\ compiled_grammar = <<>>
    /\ category_lefts = <<>>
    /\ category_rights = <<>>
    /\ err = NoError
    /\ log = <<>>

\* the other programs are not running
QuoteIdle == text_in = <<>> /\ quote_grammar_ret = None /\ grammar_quote_ret = None

PairIdle == grammar_specs = <<>> /\ line_seqs = <<>>

TsvLocals ==
    /\ tsv_fs = <<>>
    /\ tsv_grammar_path = <<>>
    /\ tsv_grammar_name = <<>>
    /\ category_to_heads = <<>>
    /\ category_to_tails = <<>>
    /\ tsv_err = NoError

TsvIdle == tsv_path = <<>> /\ tsv_file = <<>> /\ tsv_pc = "idle" /\ TsvLocals

WikiLocals ==
    /\ received = 0
    /\ sock_out = <<>>
    /\ title_utf8 = <<>>
    /\ title_length_bytes = <<>>
    /\ wikitext_utf8 = <<>>
    /\ wikitext_length_bytes = <<>>
    /\ total_sent = 0
    /\ position = 0
    /\ recv_data = <<>>
    /\ xhtml_length_bytes = <<0, 0, 0, 0>>
    /\ xhtml_bytes = <<>>
    /\ output_file = None
    /\ wiki_err = NoError

WikiIdle ==
    /\ title = <<>>
    /\ wikitext = <<>>
    /\ sock_in = <<>>
    /\ wiki_pc = "idle"
    /\ WikiLocals

\* one input path, its content any document of the bounded set
Init ==
    /\ argv = <<InPath>>
    /\ InputFile
    /\ fs0 = <<>>
    /\ fs = fs0
    /\ pc = "load"
    /\ Locals
    /\ QuoteIdle /\ PairIdle /\ TsvIdle /\ WikiIdle

Spec == Init /\ [][Next]_vars

(***************************************************************************)
(* Several input paths in one run of main.                                 *)
(***************************************************************************)
Paths == {InPath, <<"p", ".", "T", "O", "M", "L">>, <<"q">>}

\* a document that passes, one validation rejects, one whose metadata has no flags
FewTomls ==
    { [metadata |-> StdMetadata,
       entries |-> <<PlainEntry(CatA, << <<"a">> >>, << <<"B">> >>)>>],
      [metadata |-> StdMetadata,
       entries |-> <<PlainEntry(CatA, << <<"B">>, <<"a">> >>, <<>>)>>],
      [metadata |-> Metadata(<<CatA>>, <<" ">>),
       entries |-> <<PlainEntry(CatB, <<>>, << <<"a">> >>)>>] }

StaleText == <<"o", "l", "d", "\n">>

InitMain ==
    /\ argv \in SeqsUpTo(Paths, MaxArgs)
    /\ files \in [Paths -> FewTomls \cup {Unreadable}]
    /\ fs0 \in {<<>>, (GrammarPath(InPath) :> StaleText)}
    /\ fs = fs0
    /\ pc = IF argv = <<>> THEN "done" ELSE "load"
    /\ Locals
    /\ QuoteIdle /\ PairIdle /\ TsvIdle /\ WikiIdle

SpecMain == InitMain /\ [][Next]_vars

(***************************************************************************)
(* The two quoting functions, each applied to one str.                     *)
(***************************************************************************)
\* main of toml2grammar is not running
TomlIdle ==
    /\ argv = <<>>
    /\ files = <<>>
    /\ fs0 = <<>>
    /\ fs = fs0
    /\ pc = "done"
    /\ Locals

MaxQuoteLen == 4

QuoteAlphabet == {"a", " ", "\\", "\""}

\* what grammar_quote appends for one character: the double quote is tested first
GrammarQuoteChar(c) ==
    IF c = "\"" THEN <<"\\", "\"">>
    ELSE IF c = "\\" THEN <<"\\", "\\">>
    ELSE <<c>>

RECURSIVE GrammarQuoteChars(_)
GrammarQuoteChars(s) ==
    IF s = <<>> THEN <<>> ELSE GrammarQuoteChar(Head(s)) \o GrammarQuoteChars(Tail(s))

grammar_quote(s) == <<"\"">> \o GrammarQuoteChars(s) \o <<"\"">>

QuoteGrammar ==
    /\ quote_grammar_ret = None
    /\ quote_grammar_ret' = Some(quote_grammar(text_in))
    /\ UNCHANGED <<text_in, grammar_quote_ret, beside_quote>>

GrammarQuote ==
    /\ grammar_quote_ret = None
    /\ grammar_quote_ret' = Some(grammar_quote(text_in))
    /\ UNCHANGED <<text_in, quote_grammar_ret, beside_quote>>

NextQuote ==
    \/ QuoteGrammar
    \/ GrammarQuote

InitQuote ==
    /\ text_in \in SeqsUpTo(QuoteAlphabet, MaxQuoteLen)
    /\ quote_grammar_ret = None
    /\ grammar_quote_ret = None
    /\ TomlIdle /\ PairIdle /\ TsvIdle /\ WikiIdle

SpecQuote == InitQuote /\ [][NextQuote]_vars

(***************************************************************************)
(* compile_grammar applied to two grammar specs.  A Python set is iterated *)
(* in an order that depends on the hash seed of the run; sorted() gets the *)
(* elements in that order.                                                 *)
(***************************************************************************)
MaxPairPhrases == 2

\* the sets compile_grammar builds from these documents hold at most two elements, so
\* two seeds give every order of iteration
HashSeeds == 0..1

\* the elements of seq rotated by h places
Permuted(seq, h) == [k \in 1..Len(seq) |-> seq[((k - 1 + h) % Len(seq)) + 1]]

\* iter(S) for a set of str and for a set of SentencePart, under hash seed h
IterateStrs(S, h) == Permuted(SortedStrSet(S), h)

IterateParts(S, h) == Permuted(SortedParts(S), h)

\* the phrases are taken in the order the set yields them
PartsAsIterated(l) == l

RECURSIVE InsertSentencePart(_, _)
InsertSentencePart(p, sortedSeq) ==
    IF sortedSeq = <<>> THEN <<p>>
    ELSE IF PartLt(p, Head(sortedSeq)) THEN <<p>> \o sortedSeq
    ELSE <<Head(sortedSeq)>> \o InsertSentencePart(p, Tail(sortedSeq))

\* sorted() of a list of SentencePart
RECURSIVE SortedPartList(_)
SortedPartList(l) ==
    IF l = <<>> THEN <<>>
    ELSE InsertSentencePart(l[Len(l)], SortedPartList(SubSeq(l, 1, Len(l) - 1)))

sorted_phrases(l) == SortedPartList(l)

\* the lines of one role of one category, the set iterated under seed h
SeededProductionLines(category, end, d, h) ==
    IF category \notin DOMAIN d THEN <<>>
    ELSE LET phrases == sorted_phrases(IterateParts(d[category], h))
         IN  <<category \o EndName(end)>>
                 \o [k \in 1..Len(phrases) |-> AlternativeLine(k = 1, phrases[k])]
                 \o << <<" ", " ", " ", " ", ";">> >>

SeededRoleLines(lefts, rights, h) ==
    LET categories == sorted(IterateStrs(AllCategories(lefts, rights), h))
    IN  Concat([k \in 1..Len(categories) |->
                  SeededProductionLines(categories[k], "left", lefts, h)
                      \o SeededProductionLines(categories[k], "right", rights, h)])

\* compile_grammar in a run whose hash seed is h: the KeyError, or the lines
seeded_compile_grammar(name, toml, h) ==
    IF "flags" \notin DOMAIN toml.metadata \/ "glue" \notin DOMAIN toml.metadata
    THEN [raised |-> "KeyError", ret |-> <<>>]
    ELSE IF UnknownFlagUsed(toml.entries, toml.metadata.flags)
    THEN [raised |-> "KeyError", ret |-> <<>>]
    ELSE LET flag_to_opt == toml.metadata.flags
             lefts == BuildLefts(<<>>, toml.entries, flag_to_opt)
             rights == BuildRights(<<>>, toml.entries, flag_to_opt)
             top == toml.metadata.top_level_categories
         IN  [raised |-> NoError,
              ret |-> <<CommentLine, <<>>, RootLine(name, top), <<>>,
                        GlueLine(toml.metadata.glue), <<>> >>
                          \o PairLines(top) \o << <<>> >> \o SeededRoleLines(lefts, rights, h)]

PairGrammarName == <<"p">>

PairMetadata == WithFlags(Metadata(<<CatA, CatB>>, <<" ">>), StdFlags)

OtherCat(c) == IF c = CatA THEN CatB ELSE CatA

\* an entry whose lefts and rights are the same phrases, all annotated alike
UniformEntry(c, phrases, ann) ==
    LET same(v) == [k \in 1..Len(phrases) |-> v]
    IN  CASE ann = "plain" -> PlainEntry(c, phrases, phrases)
          [] ann = "fg" -> PlainEntry(c, phrases, phrases)
                             @@ ("lefts_flags" :> same(<<FlagF, FlagG>>))
                             @@ ("rights_flags" :> same(<<FlagF, FlagG>>))
          [] ann = "gf" -> PlainEntry(c, phrases, phrases)
                             @@ ("lefts_flags" :> same(<<FlagG, FlagF>>))
                             @@ ("rights_flags" :> same(<<FlagG, FlagF>>))
          [] ann = "add" -> PlainEntry(c, phrases, phrases)
                             @@ ("lefts_add_categories" :> same(<<OtherCat(c)>>))
                             @@ ("rights_add_categories" :> same(<<OtherCat(c)>>))

\* grammar specs of one entry, and of two plain entries of at most one phrase each
PairSpecs ==
    {[metadata |-> PairMetadata, entries |-> <<UniformEntry(c, phrases, ann)>>] :
        c \in {CatA, CatB}, phrases \in SeqsUpTo(Texts, MaxPairPhrases),
        ann \in {"plain", "fg", "gf", "add"}}
    \cup
    {[metadata |-> PairMetadata,
      entries |-> <<UniformEntry(c1, p1, "plain"), UniformEntry(c2, p2, "plain")>>] :
        c1 \in {CatA, CatB}, c2 \in {CatA, CatB},
        p1 \in SeqsUpTo(Texts, 1), p2 \in SeqsUpTo(Texts, 1)}

CompileSpec(k) ==
    /\ line_seqs[k] = None
    /\ \E h \in HashSeeds :
          LET r == seeded_compile_grammar(PairGrammarName, grammar_specs[k], h)
          IN  line_seqs' = [line_seqs EXCEPT ![k] = Some(r)]
    /\ UNCHANGED <<grammar_specs, beside_pair>>

NextPair == \E k \in 1..2 : CompileSpec(k)

InitPair ==
    /\ grammar_specs \in [1..2 -> PairSpecs]
    /\ line_seqs = <<None, None>>
    /\ TomlIdle /\ QuoteIdle /\ TsvIdle /\ WikiIdle

SpecPair == InitPair /\ [][NextPair]_vars

(***************************************************************************)
(* cicd/tsv2grammar.py: generate_grammar for one TSV file.                 *)
(***************************************************************************)
MaxRows == 2

GLUE == <<" ">>

DotTsv == <<".", "t", "s", "v">>

\* tsv_path.lower().endswith(".tsv")
EndsWithTsv(p) ==
    /\ Len(p) >= Len(DotTsv)
    /\ SubSeq(lower(p), Len(p) - Len(DotTsv) + 1, Len(p)) = DotTsv

TsvGrammarPath(p) ==
    IF EndsWithTsv(p)
    THEN SubSeq(p, 1, Len(p) - Len(DotTsv)) \o DotGrammar
    ELSE p \o DotGrammar

TsvGrammarName(p) == splitext0(basename(TsvGrammarPath(p)))

GrammarVariant(text, subversive) == [text |-> text, subversive |-> subversive]

\* NamedTuple comparison: text first, then subversive (False < True)
VariantLt(p, q) ==
    \/ StrLt(p.text, q.text)
    \/ p.text = q.text /\ ~p.subversive /\ q.subversive

RECURSIVE InsertVariant(_, _)
InsertVariant(v, sortedSeq) ==
    IF sortedSeq = <<>> THEN <<v>>
    ELSE IF VariantLt(v, Head(sortedSeq)) THEN <<v>> \o sortedSeq
    ELSE <<Head(sortedSeq)>> \o InsertVariant(v, Tail(sortedSeq))

\* list.sort() of a list of GrammarVariant
RECURSIVE SortVariants(_)
SortVariants(l) ==
    IF l = <<>> THEN <<>>
    ELSE InsertVariant(l[Len(l)], SortVariants(SubSeq(l, 1, Len(l) - 1)))

startswith(s, prefix) ==
    Len(s) >= Len(prefix) /\ SubSeq(s, 1, Len(prefix)) = prefix

RECURSIVE rstrip(_, _)
rstrip(s, chars) ==
    IF s # <<>> /\ s[Len(s)] \in chars THEN rstrip(SubSeq(s, 1, Len(s) - 1), chars) ELSE s

RECURSIVE split(_, _)
split(s, sep) ==
    IF \E k \in 1..Len(s) : s[k] = sep
    THEN LET k == CHOOSE k \in 1..Len(s) : s[k] = sep /\ \A m \in 1..(k - 1) : s[m] # sep
         IN  <<SubSeq(s, 1, k - 1)>> \o split(SubSeq(s, k + 1, Len(s)), sep)
    ELSE <<s>>

\* d[category].append(v) on a defaultdict(list)
AppendVariant(d, category, v) ==
    IF category \in DOMAIN d
    THEN [d EXCEPT ![category] = Append(@, v)]
    ELSE d @@ (category :> <<v>>)

HeaderPrefix == <<"g", "r", "o", "u", "p", "\t", "l", "e", "f", "t", "\t", "r", "i", "g",
      "h", "t">>

\* the body of the loop over f.readlines() for line number n (from 0)
ReadRow(acc, n, ln) ==
    IF n = 0 /\ startswith(ln, HeaderPrefix) THEN acc
    ELSE LET fields == split(rstrip(ln, {"\r", "\n"}), "\t") IN
         IF Len(fields) < 3 THEN [acc EXCEPT !.raised = "ValueError"]
         ELSE LET category == fields[1]
                  head == fields[2]
                  tail == fields[3]
                  more == SubSeq(fields, 4, Len(fields))
                  heads1 == IF head # <<>>
                            THEN AppendVariant(acc.heads, category, GrammarVariant(head,
                                  FALSE))
                            ELSE acc.heads
                  tails1 == IF tail # <<>>
                            THEN AppendVariant(acc.tails, category, GrammarVariant(tail,
                                  FALSE))
                            ELSE acc.tails
                  heads2 == IF Len(more) > 0 /\ more[1] # <<>>
                            THEN AppendVariant(heads1, category, GrammarVariant(more[1],
                                  TRUE))
                            ELSE heads1
                  tails2 == IF Len(more) > 1 /\ more[2] # <<>>
                            THEN AppendVariant(tails1, category, GrammarVariant(more[2],
                                  TRUE))
                            ELSE tails1
              IN  [acc EXCEPT !.heads = heads2, !.tails = tails2]

RECURSIVE ReadRowsFrom(_, _, _)
ReadRowsFrom(acc, lines, n) ==
    IF n >= Len(lines) \/ acc.raised # NoError THEN acc
    ELSE ReadRowsFrom(ReadRow(acc, n, lines[n + 1]), lines, n + 1)

ReadRows(lines) ==
    ReadRowsFrom([raised |-> NoError, heads |-> <<>>, tails |-> <<>>], lines, 0)

Digit(d) == <<"0", "1", "2", "3", "4", "5", "6", "7", "8", "9">>[d + 1]

\* str() of a natural number
RECURSIVE IntStr(_)
IntStr(n) == IF n < 10 THEN <<Digit(n)>> ELSE Append(IntStr(n \div 10), Digit(n % 10))

TsvCommentLine == <<"/", "/", " ", "g", "e", "n", "e", "r", "a", "t", "e", "d", " ", "f",
      "r", "o", "m", " ", "a", " ", "T", "S", "V", " ", "f", "i", "l", "e", " ", "-", "-",
            " ", "n", "o", " ", "s", "e", "n", "s", "e", " ", "i", "n", " ", "e", "d", "i",
                  "t", "i", "n", "g", " ", "t", "h", "i", "s", "!">>

\* category_to_ends[category] on a defaultdict(list)
Ends(d, category) == IF category \in DOMAIN d THEN d[category] ELSE <<>>

CategoryPairString(first, category, heads) ==
    <<" ">> \o (IF first THEN <<":">> ELSE <<"|">>)
        \o <<"<">> \o IntStr(Len(heads[category])) \o <<">", " ">> \o category \o <<"_",
              "p", "a", "i", "r">>

TsvRootLine(name, categories, heads) ==
    name \o Concat([k \in 1..Len(categories) |->
                      CategoryPairString(k = 1, categories[k], heads)])
         \o <<" ", ";">>

TsvPairLine(category) ==
    category \o <<"_", "p", "a", "i", "r", " ", ":", " ">> \o category \o <<"_", "h", "e",
          "a", "d", " ">> \o grammar_quote(GLUE)
             \o <<" ">> \o category \o <<"_", "t", "a", "i", "l", " ", ";">>

TsvAlternativeLine(first, end) ==
    <<" ", " ", " ", " ">> \o (IF first THEN <<":">> ELSE <<"|">>)
        \o (IF end.subversive THEN <<" ", "!", "o", "p", "t", "_", "s">> ELSE <<>>)
        \o <<" ">> \o grammar_quote(end.text)

\* the categories that get productions: those with a head
TsvCategories(heads, tails) == SortedStrSet(DOMAIN heads)

\* the lines of one piece of one category: its name, its alternatives, the closing line
PieceLines(category, piece, ends) ==
    <<category \o <<"_">> \o piece>>
        \o [k \in 1..Len(ends) |-> TsvAlternativeLine(k = 1, ends[k])]
        \o << <<" ", " ", " ", " ", ";">> >>

\* the lines generate_grammar prints, from the sorted lists
TsvLines(name, heads, tails) ==
    LET categories == TsvCategories(heads, tails)
    IN  <<TsvCommentLine, <<>>, TsvRootLine(name, categories, heads), <<>> >>
            \o [k \in 1..Len(categories) |-> TsvPairLine(categories[k])]
            \o << <<>> >>
            \o Concat([k \in 1..Len(categories) |->
                          PieceLines(categories[k], <<"h", "e", "a", "d">>, Ends(heads,
                                categories[k]))
                              \o PieceLines(categories[k], <<"t", "a", "i", "l">>,
                                    Ends(tails, categories[k]))])

\* lines 30-34
DeriveTsvPaths ==
    /\ tsv_pc = "derive"
    /\ tsv_grammar_path' = TsvGrammarPath(tsv_path)
    /\ tsv_grammar_name' = TsvGrammarName(tsv_path)
    /\ tsv_pc' = "read"
    /\ UNCHANGED <<tsv_path, tsv_file, tsv_fs, category_to_heads, category_to_tails,
          tsv_err,
                   beside_tsv>>

\* lines 36-57
ReadTsv ==
    /\ tsv_pc = "read"
    /\ LET r == ReadRows(tsv_file)
       IN  /\ category_to_heads' = r.heads
           /\ category_to_tails' = r.tails
           /\ tsv_err' = r.raised
           /\ tsv_pc' = IF r.raised = NoError THEN "write" ELSE "failed"
    /\ UNCHANGED <<tsv_path, tsv_file, tsv_fs, tsv_grammar_path, tsv_grammar_name,
          beside_tsv>>

\* lines 59-109: the lists are sorted in place, reading category_to_tails[category]
\* creates the missing lists, and the file is written
WriteTsvGrammar ==
    /\ tsv_pc = "write"
    /\ LET heads == [c \in DOMAIN category_to_heads |-> SortVariants(category_to_heads[c])]
           tails == [c \in DOMAIN category_to_tails |-> SortVariants(category_to_tails[c])]
       IN  /\ category_to_heads' = heads
           /\ category_to_tails'
                 = tails @@ [c \in DOMAIN heads \ DOMAIN tails |-> <<>>]
           /\ tsv_fs' = save_grammar(tsv_fs, tsv_grammar_path,
                                     TsvLines(tsv_grammar_name, heads, tails))
    /\ tsv_pc' = "done"
    /\ UNCHANGED <<tsv_path, tsv_file, tsv_grammar_path, tsv_grammar_name, tsv_err,
          beside_tsv>>

NextTsv ==
    \/ DeriveTsvPaths
    \/ ReadTsv
    \/ WriteTsvGrammar

\* the rows of a TSV file
TsvFields == {<<cat, head, tail>> : cat \in {CatA, CatB}, head \in {<<>>, <<"x">>},
                                    tail \in {<<>>, <<"y">>}}
                 \cup {<<CatA, <<>>, <<>>, <<"s">> >>,
                       <<CatA, <<"x">>, <<"y">>, <<"s">>, <<"t">> >>,
                       <<CatB, <<"x">>, <<>>, <<>>, <<"t">> >>,
                       <<CatA, <<"x">> >>}

TsvRow(fields) == Join(<<"\t">>, fields) \o <<"\n">>

TsvHeaderRow == <<"g", "r", "o", "u", "p", "\t", "l", "e", "f", "t", "\t", "r", "i", "g",
      "h", "t", "\n">>

TsvFiles ==
    {header \o rows : header \in {<<>>, <<TsvHeaderRow>>},
                      rows \in SeqsUpTo({TsvRow(f) : f \in TsvFields}, MaxRows)}

TsvPaths == {<<"p", ".", "t", "s", "v">>, <<"p", ".", "T", "S", "V">>, <<"q">>}

InitTsv ==
    /\ tsv_path \in TsvPaths
    /\ tsv_file \in TsvFiles
    /\ tsv_pc = "derive"
    /\ TsvLocals
    /\ TomlIdle /\ QuoteIdle /\ PairIdle /\ WikiIdle

SpecTsv == InitTsv /\ [][NextTsv]_vars

(***************************************************************************)
(* The paths both programs derive from one command-line argument.          *)
(***************************************************************************)
PathDirs == {<<>>, <<"d", "/">>, <<"d", ".", "e", "/">>}

PathStems == {<<>>, <<"p">>, <<"p", ".", "b">>, <<".", "p">>}

PathSuffixes == {<<>>, <<".", "t", "o", "m", "l">>, <<".", "T", "O", "M", "L">>, <<".",
      "T", "o", "m", "l">>, <<".", "t", "s", "v">>, <<".", "T", "S", "V">>, <<".", "g",
            "r", "a", "m", "m", "a", "r">>}

PathArgs == {dir \o stem \o suffix : dir \in PathDirs, stem \in PathStems,
                                     suffix \in PathSuffixes}

NextPaths ==
    \/ LoadToml
    \/ DeriveTsvPaths

InitPaths ==
    /\ \E p \in PathArgs :
          /\ argv = <<p>>
          /\ files = (p :> OrderingToml(<<>>))
          /\ tsv_path = p
    /\ fs0 = <<>>
    /\ fs = fs0
    /\ pc = "load"
    /\ Locals
    /\ tsv_file = <<>>
    /\ tsv_pc = "derive"
    /\ TsvLocals
    /\ QuoteIdle /\ PairIdle /\ WikiIdle

SpecPaths == InitPaths /\ [][NextPaths]_vars

(***************************************************************************)
(* rocketbot_plugin_bim/wikiparseserver/client.py: parse_wikitext.  Bytes  *)
(* are numbers in 0..255; one step is one call of sock.send or of          *)
(* sock.recv_into, with the bookkeeping of the loop around it.             *)
(***************************************************************************)
MaxTitle == 1

MaxWikitext == 1

MaxXhtml == 2

START_MAGIC == <<87, 105, 75, 105, 67, 114, 85, 110, 67, 104>>

END_MAGIC == <<69, 110, 79, 117, 71, 104, 87, 105, 75, 105>>

\* a character outside ASCII: e with an acute accent
EAcute == "e'"

\* str.encode("utf-8") of one character
Utf8Char(c) ==
    CASE c = "a" -> <<97>>
      [] c = EAcute -> <<195, 169>>

RECURSIVE Utf8(_)
Utf8(text) == IF text = <<>> THEN <<>> ELSE Utf8Char(Head(text)) \o Utf8(Tail(text))

\* int.to_bytes(4, byteorder="big")
ToBytes4(n) ==
    <<(n \div 16777216) % 256, (n \div 65536) % 256, (n \div 256) % 256, n % 256>>

\* int.from_bytes(b, byteorder="big") of four bytes
FromBytes4(b) == ((b[1] * 256 + b[2]) * 256 + b[3]) * 256 + b[4]

\* encode_utf8: the ValueError, or the data and its length bytes
encode_utf8(text) ==
    LET text_utf8 == Utf8(text)
    IN  IF Len(text_utf8) \div 65536 > 65535    \* len(text_utf8) > 0xFFFFFFFF
        THEN [raised |-> "ValueError", data |-> <<>>, length_bytes |-> <<>>]
        ELSE [raised |-> NoError, data |-> text_utf8,
              length_bytes |-> ToBytes4(Len(text_utf8))]

\* bytes.decode("utf-8"): the text, or UnicodeDecodeError
RECURSIVE DecodeUtf8(_)
DecodeUtf8(b) ==
    IF b = <<>> THEN [raised |-> NoError, text |-> <<>>]
    ELSE IF Head(b) = 97
    THEN LET rest == DecodeUtf8(Tail(b))
         IN  [rest EXCEPT !.text = IF rest.raised = NoError THEN <<"a">> \o @ ELSE @]
    ELSE IF Head(b) = 195 /\ Len(b) >= 2 /\ b[2] = 169
    THEN LET rest == DecodeUtf8(SubSeq(b, 3, Len(b)))
         IN  [rest EXCEPT !.text = IF rest.raised = NoError THEN <<EAcute>> \o @ ELSE @]
    ELSE [raised |-> "UnicodeDecodeError", text |-> <<>>]

\* the calls of parse_wikitext that transfer bytes, in program order, and the write
WikiOrder ==
    <<"send_start_magic", "send_title_length", "send_title", "send_wikitext_length",
      "send_wikitext", "recv_length", "recv_xhtml", "send_end_magic", "write">>

SendPhases == {"send_start_magic", "send_title_length", "send_title",
               "send_wikitext_length", "send_wikitext", "send_end_magic"}

RecvPhases == {"recv_length", "recv_xhtml"}

\* the argument data of the send_strict call of a phase
SendData(phase) ==
    CASE phase = "send_start_magic" -> START_MAGIC
      [] phase = "send_title_length" -> title_length_bytes
      [] phase = "send_title" -> title_utf8
      [] phase = "send_wikitext_length" -> wikitext_length_bytes
      [] phase = "send_wikitext" -> wikitext_utf8
      [] phase = "send_end_magic" -> END_MAGIC

\* the number of bytes the call of a phase has to transfer
Amount(phase, xhtml_length) ==
    CASE phase \in SendPhases -> Len(SendData(phase))
      [] phase = "recv_length" -> 4
      [] phase = "recv_xhtml" -> xhtml_length
      [] OTHER -> 1

\* the while loop of send_strict and of recv_strict is not entered for no bytes: the
\* call returns at once, and parse_wikitext is at its next call
RECURSIVE Settle(_, _)
Settle(k, xhtml_length) ==
    IF Amount(WikiOrder[k], xhtml_length) > 0 THEN WikiOrder[k]
    ELSE Settle(k + 1, xhtml_length)

PhaseIndex(phase) == CHOOSE k \in 1..Len(WikiOrder) : WikiOrder[k] = phase

\* any number of bytes sent counts as all of them
AdvanceWhole(total, this, data) == Len(data)

\* total_sent += this_sent
Advance(total, this, data) == total + this

\* lines 55-63: connect, read the wikitext, encode both texts
Connect ==
    /\ wiki_pc = "connect"
    /\ LET t == encode_utf8(title)
           w == encode_utf8(wikitext)
       IN  /\ title_utf8' = t.data
           /\ title_length_bytes' = t.length_bytes
           /\ wikitext_utf8' = w.data
           /\ wikitext_length_bytes' = w.length_bytes
           /\ wiki_err' = IF t.raised # NoError THEN t.raised ELSE w.raised
           /\ wiki_pc' = IF t.raised # NoError \/ w.raised # NoError THEN "failed"
                         ELSE "send_start_magic"
    /\ UNCHANGED <<title, wikitext, sock_in, received, sock_out, total_sent, position,
                   recv_data, xhtml_length_bytes, xhtml_bytes, output_file, beside_wiki>>

\* send_strict, one pass of its loop in which sock.send accepted some bytes
SendSome ==
    /\ wiki_pc \in SendPhases
    /\ LET data == SendData(wiki_pc) IN
       \E this_sent \in 1..(Len(data) - total_sent) :
          LET total == Advance(total_sent, this_sent, data) IN
          /\ sock_out' = sock_out \o SubSeq(data, total_sent + 1, total_sent + this_sent)
          /\ IF total < Len(data)
             THEN /\ total_sent' = total
                  /\ wiki_pc' = wiki_pc
             ELSE /\ total_sent' = 0
                  /\ wiki_pc' = Settle(PhaseIndex(wiki_pc) + 1, FromBytes4(xhtml_length_bytes))
    /\ UNCHANGED <<title, wikitext, sock_in, received, title_utf8, title_length_bytes,
                   wikitext_utf8, wikitext_length_bytes, position, recv_data,
                   xhtml_length_bytes, xhtml_bytes, output_file, wiki_err, beside_wiki>>

\* send_strict, a pass in which sock.send returned 0
SendZero ==
    /\ wiki_pc \in SendPhases
    /\ wiki_pc' = "failed"
    /\ wiki_err' = "zero bytes sent on socket"
    /\ UNCHANGED <<title, wikitext, sock_in, received, sock_out, title_utf8,
                   title_length_bytes, wikitext_utf8, wikitext_length_bytes, total_sent,
                   position, recv_data, xhtml_length_bytes, xhtml_bytes, output_file,
                   beside_wiki>>

\* recv_strict, one pass of its loop in which sock.recv_into delivered some bytes
RecvSome ==
    /\ wiki_pc \in RecvPhases
    /\ LET count == Amount(wiki_pc, FromBytes4(xhtml_length_bytes))
           room == count - position
           waiting == Len(sock_in) - received
       IN
       \E bytes_read \in 1..(IF room < waiting THEN room ELSE waiting) :
          LET buffer == recv_data \o SubSeq(sock_in, received + 1, received + bytes_read)
          IN
          /\ received' = received + bytes_read
          /\ IF position + bytes_read < count
             THEN /\ position' = position + bytes_read
                  /\ recv_data' = buffer
                  /\ wiki_pc' = wiki_pc
                  /\ UNCHANGED <<xhtml_length_bytes, xhtml_bytes>>
             ELSE /\ position' = 0
                  /\ recv_data' = <<>>
                  /\ IF wiki_pc = "recv_length"
                     THEN /\ xhtml_length_bytes' = buffer
                          /\ xhtml_bytes' = xhtml_bytes
                          /\ wiki_pc' = Settle(PhaseIndex(wiki_pc) + 1, FromBytes4(buffer))
                     ELSE /\ xhtml_bytes' = buffer
                          /\ xhtml_length_bytes' = xhtml_length_bytes
                          /\ wiki_pc' = Settle(PhaseIndex(wiki_pc) + 1,
                                               FromBytes4(xhtml_length_bytes))
    /\ UNCHANGED <<title, wikitext, sock_in, sock_out, title_utf8, title_length_bytes,
                   wikitext_utf8, wikitext_length_bytes, total_sent, output_file, wiki_err,
                   beside_wiki>>

\* recv_strict, a pass in which sock.recv_into returned 0
RecvZero ==
    /\ wiki_pc \in RecvPhases
    /\ wiki_pc' = "failed"
    /\ wiki_err' = "zero bytes received on socket"
    /\ UNCHANGED <<title, wikitext, sock_in, received, sock_out, title_utf8,
                   title_length_bytes, wikitext_utf8, wikitext_length_bytes, total_sent,
                   position, recv_data, xhtml_length_bytes, xhtml_bytes, output_file,
                   beside_wiki>>

\* lines 81-86: decode the XHTML and write it to the output file
WriteOutput ==
    /\ wiki_pc = "write"
    /\ LET xhtml == DecodeUtf8(xhtml_bytes)
       IN  /\ wiki_err' = xhtml.raised
           /\ wiki_pc' = IF xhtml.raised = NoError THEN "done" ELSE "failed"
           /\ output_file' = IF xhtml.raised = NoError THEN Some(xhtml.text) ELSE output_file
    /\ UNCHANGED <<title, wikitext, sock_in, received, sock_out, title_utf8,
                   title_length_bytes, wikitext_utf8, wikitext_length_bytes, total_sent,
                   position, recv_data, xhtml_length_bytes, xhtml_bytes, beside_wiki>>

NextWiki ==
    \/ Connect
    \/ SendSome
    \/ SendZero
    \/ RecvSome
    \/ RecvZero
    \/ WriteOutput

\* what the server sends before it closes the connection: a length and a body, which
\* need not have that length nor be UTF-8, or less than a length
ServerReplies ==
    {ToBytes4(n) \o body : n \in 0..MaxXhtml, body \in SeqsUpTo({97, 195, 169}, MaxXhtml)}
        \cup {<<>>, <<0, 0>>, <<0, 0, 1, 0, 97>>}

InitWiki ==
    /\ title \in SeqsUpTo({EAcute}, MaxTitle)
    /\ wikitext \in SeqsUpTo({"a"}, MaxWikitext)
    /\ sock_in \in ServerReplies
    /\ wiki_pc = "connect"
    /\ WikiLocals
    /\ TomlIdle /\ QuoteIdle /\ PairIdle /\ TsvIdle

SpecWiki == InitWiki /\ [][NextWiki]_vars

(***************************************************************************)
(* Properties.                                                             *)
(***************************************************************************)
Call(op, k) == [op |-> op, arg |-> k]

\* validate_grammar returned (normally or not) for the current input
ValidateRan ==
    \/ pc \in {"compile", "save"}
    \/ pc = "done" /\ argv # <<>>
    \/ pc = "failed" /\ err # "load error"

\* validate_grammar accepted the current input
Accepted ==
    \/ pc \in {"compile", "save"}
    \/ pc = "done" /\ argv # <<>>
    \/ pc = "failed" /\ err = "KeyError"

\* compile_grammar returned its lines for the current input
Compiled == pc = "save" \/ (pc = "done" /\ argv # <<>>)

SaveOrder ==
    \A k \in 1..Len(log) :
        log[k].op = "save_grammar" =>
            /\ k >= 4
            /\ log[k - 3] = Call("load_toml", log[k].arg)
            /\ log[k - 2] = Call("validate_grammar", log[k].arg)
            /\ log[k - 1] = Call("compile_grammar", log[k].arg)

FailureStops ==
    pc = "failed" =>
        /\ ~ENABLED Next
        /\ \A k \in 1..Len(log) : log[k].op = "save_grammar" => log[k].arg < i

\* the inputs whose save_grammar returned
Saved == {log[k].arg : k \in {k \in 1..Len(log) : log[k].op = "save_grammar"}}

\* every output path holds what main found there, unless an input was saved to it
Untouched ==
    \A path \in DOMAIN fs0 \cup DOMAIN fs \cup {GrammarPath(argv[k]) : k \in 1..Len(argv)} :
        (\A k \in Saved : GrammarPath(argv[k]) # path) =>
            /\ path \in DOMAIN fs <=> path \in DOMAIN fs0
            /\ path \in DOMAIN fs => fs[path] = fs0[path]

\* C1: main saves the grammar of an input only after load_toml, validate_grammar and
\* compile_grammar returned for that same input, in that order; once a call raises,
\* main takes no further step and no save has run for that input or a later one; and
\* an output path to which no input was saved holds what it held when main started.
C1_SaveOnlyAfterStages == SaveOrder /\ FailureStops /\ Untouched

\* C1 witness: the first input was saved, the second failed validation, and the
\* second input's output path still holds the text it held before the run
C1_Witness ==
    /\ pc = "failed"
    /\ i = 2
    /\ err = "sorting error"
    /\ Len(log) = 5
    /\ log[4] = Call("save_grammar", 1)
    /\ GrammarPath(argv[1]) \in DOMAIN fs
    /\ GrammarPath(argv[2]) \in DOMAIN fs0
    /\ GrammarPath(argv[2]) # GrammarPath(argv[1])
    /\ fs[GrammarPath(argv[2])] = StaleText

\* C2 as claimed: whenever validate_grammar accepted the input, compile_grammar
\* returns its lines (main does not fail after validation)
C2_CompileNeverRaises == Accepted => pc # "failed"

Range(f) == {f[x] : x \in DOMAIN f}

Lookup(d, key) == IF key \in DOMAIN d THEN d[key] ELSE {}

Ascending(t) == \A k \in 1..(Len(t) - 1) : ~StrLt(t[k + 1], t[k])

Count(t, v) == Cardinality({k \in 1..Len(t) : t[k] = v})

\* the option names the flags stand for, in ascending order
OptionTuple(flag_to_opt, flags) ==
    LET opts == [k \in 1..Len(flags) |-> flag_to_opt[flags[k]]]
    IN  CHOOSE t \in [1..Len(flags) -> Range(opts)] :
            Ascending(t) /\ \A v \in Range(opts) : Count(t, v) = Count(opts, v)

\* the list an entry gives for a phrase, the empty one when the entry has no such key
ListAt(entry, key, k) == IF key \in DOMAIN entry THEN entry[key][k] ELSE <<>>

\* the Phrase Variants that the entries contribute to category c for one role
Contributed(toml, role, flagsKey, addKey, c) ==
    UNION {{SentencePart(e[role][k], OptionTuple(toml.metadata.flags, ListAt(e, flagsKey, k)))
               : k \in {k \in 1..Len(e[role]) :
                          e.category = c \/ c \in Range(ListAt(e, addKey, k))}}
           : e \in Range(toml.entries)}

CatNames == {CatA, CatB, CatC}

\* C3: once compile_grammar has indexed the entries, the left set of every category
\* holds exactly the Phrase Variants (text, sorted option tuple) of the left phrases
\* whose entry has that category or lists it among the phrase's left additional
\* categories, the right set likewise from the right phrases and the right lists
\* alone, and a missing flags or add-categories list counts as empty for each phrase.
C3_IndexContents ==
    Compiled =>
        \A c \in CatNames \cup DOMAIN category_lefts \cup DOMAIN category_rights :
            /\ Lookup(category_lefts, c)
                  = Contributed(grammar_toml, "lefts", "lefts_flags", "lefts_add_categories", c)
            /\ Lookup(category_rights, c)
                  = Contributed(grammar_toml, "rights", "rights_flags", "rights_add_categories", c)

\* C3 witness: a left phrase of an entry of category a, carrying an option, was fanned
\* out to category b, whose right set got nothing from it
C3_Witness ==
    /\ Compiled
    /\ Len(grammar_toml.entries) = 1
    /\ grammar_toml.entries[1].category = CatA
    /\ "lefts_add_categories" \in DOMAIN grammar_toml.entries[1]
    /\ "lefts_flags" \in DOMAIN grammar_toml.entries[1]
    /\ CatB \in DOMAIN category_lefts
    /\ \E part \in category_lefts[CatB] : part.options # <<>>
    /\ CatB \notin DOMAIN category_rights

\* the elements of a set of str, and of a set of Phrase Variants, by rank
AscendingStrs(S) ==
    [k \in 1..Cardinality(S) |->
        CHOOSE x \in S : Cardinality({y \in S : StrLt(y, x)}) = k - 1]

AscendingParts(S) ==
    [k \in 1..Cardinality(S) |->
        CHOOSE x \in S : Cardinality({y \in S : PartLt(y, x)}) = k - 1]

Guards(options) ==
    Concat([k \in 1..Len(options) |-> <<" ", "!", "o", "p", "t", "_">> \o options[k]])

ExpectedAlternative(k, part) ==
    <<" ", " ", " ", " ">> \o (IF k = 1 THEN <<":">> ELSE <<"|">>)
        \o Guards(part.options) \o <<" ">> \o quote_grammar(part.text)

ExpectedProduction(c, suffix, parts) ==
    IF parts = {} THEN <<>>
    ELSE <<c \o suffix>>
            \o [k \in 1..Cardinality(parts) |-> ExpectedAlternative(k, AscendingParts(parts)[k])]
            \o << <<" ", " ", " ", " ", ";">> >>

ExpectedRoleLines ==
    LET cats == AscendingStrs(DOMAIN category_lefts \cup DOMAIN category_rights)
    IN  Concat([k \in 1..Len(cats) |->
            ExpectedProduction(cats[k], <<"_", "l", "e", "f", "t">>,
                               Lookup(category_lefts, cats[k]))
              \o ExpectedProduction(cats[k], <<"_", "r", "i", "g", "h", "t">>,
                                    Lookup(category_rights, cats[k]))])

\* the lines before the role productions: six, the pair productions, and a blank one
HeaderLen == Len(grammar_toml.metadata.top_level_categories) + 7

\* C4: the role productions of the output are, for each category that is a key of the
\* left or of the right index, in ascending order of category name, the _left and then
\* the _right production, each present exactly when that role holds a Phrase Variant;
\* a production lists the role's distinct variants once each in ascending order of text
\* and then of option tuple, the first after ':' and the others after '|', each as its
\* !opt_ guards in ascending order of option name and the quoted text, and ends in ';'.
C4_RoleProductions ==
    Compiled =>
        /\ \A c \in DOMAIN category_lefts : category_lefts[c] # {}
        /\ \A c \in DOMAIN category_rights : category_rights[c] # {}
        /\ \A c \in DOMAIN category_lefts : \A part \in category_lefts[c] :
              Ascending(part.options)
        /\ \A c \in DOMAIN category_rights : \A part \in category_rights[c] :
              Ascending(part.options)
        /\ Len(compiled_grammar) >= HeaderLen
        /\ SubSeq(compiled_grammar, HeaderLen + 1, Len(compiled_grammar)) = ExpectedRoleLines

\* C4 witness: category a has right phrases only, two of them with the same text and
\* different option tuples
C4_Witness ==
    /\ Compiled
    /\ CatA \notin DOMAIN category_lefts
    /\ CatA \in DOMAIN category_rights
    /\ \E p1, p2 \in category_rights[CatA] : p1.text = p2.text /\ p1.options # p2.options

RECURSIVE SplitLines(_)
SplitLines(text) ==
    IF text = <<>> THEN <<>>
    ELSE IF \E k \in 1..Len(text) : text[k] = "\n"
    THEN LET k == CHOOSE k \in 1..Len(text) :
                      text[k] = "\n" /\ \A m \in 1..(k - 1) : text[m] # "\n"
         IN  <<SubSeq(text, 1, k - 1)>> \o SplitLines(SubSeq(text, k + 1, Len(text)))
    ELSE <<text, <<"unterminated">> >>

ExpectedRoot ==
    LET top == grammar_toml.metadata.top_level_categories
    IN  grammar_name \o <<" ", ":">>
            \o (IF top = <<>> THEN <<" ">>
                ELSE Concat([k \in 1..Len(top) |->
                        (IF k = 1 THEN <<" ">> ELSE <<" ", "|", " ">>)
                            \o top[k] \o <<"_", "p", "a", "i", "r">>]))
            \o <<" ", ";">>

StartsWith(line, prefix) ==
    Len(line) >= Len(prefix) /\ SubSeq(line, 1, Len(prefix)) = prefix

EndsWith(line, suffix) ==
    Len(line) >= Len(suffix) /\ SubSeq(line, Len(line) - Len(suffix) + 1, Len(line)) = suffix

IsRoleLine(line) ==
    \/ StartsWith(line, <<" ", " ", " ", " ", ":">>)
    \/ StartsWith(line, <<" ", " ", " ", " ", "|">>)
    \/ line = <<" ", " ", " ", " ", ";">>
    \/ EndsWith(line, <<"_", "l", "e", "f", "t">>)
    \/ EndsWith(line, <<"_", "r", "i", "g", "h", "t">>)

\* C5: the lines compile_grammar returns are the generated-file comment, a blank line,
\* the root production (the _pair nonterminals of top_level_categories in the declared
\* order, ended by ';'), a blank line, the glue definition, a blank line, the pair
\* productions, a blank line and then the role productions; the file save_grammar
\* writes holds these lines in this order, each followed by one newline.
C5_LineOrder ==
    /\ Compiled =>
          LET top == grammar_toml.metadata.top_level_categories
              n == Len(top)
          IN  /\ Len(compiled_grammar) >= n + 7
              /\ compiled_grammar[1] = CommentLine
              /\ StartsWith(compiled_grammar[1], <<"/", "/">>)
              /\ compiled_grammar[2] = <<>>
              /\ compiled_grammar[3] = ExpectedRoot
              /\ compiled_grammar[4] = <<>>
              /\ StartsWith(compiled_grammar[5], <<"_", "g", "l", "u", "e", " ", ":", " ", "\"">>)
              /\ EndsWith(compiled_grammar[5], <<"\"", " ", ";">>)
              /\ compiled_grammar[6] = <<>>
              /\ \A k \in 1..n :
                    StartsWith(compiled_grammar[6 + k],
                               top[k] \o <<"_", "p", "a", "i", "r", " ", ":", " ">>)
              /\ compiled_grammar[n + 7] = <<>>
              /\ \A k \in (n + 8)..Len(compiled_grammar) : IsRoleLine(compiled_grammar[k])
    /\ (pc = "done" /\ argv # <<>>) =>
          /\ grammar_path \in DOMAIN fs
          /\ SplitLines(fs[grammar_path]) = compiled_grammar

\* C5 witness: a grammar with two top-level categories and role productions was saved
C5_Witness ==
    /\ pc = "done"
    /\ argv # <<>>
    /\ grammar_toml.metadata.top_level_categories = <<CatA, CatB>>
    /\ Len(compiled_grammar) > HeaderLen
    /\ grammar_path \in DOMAIN fs

Occurrences(lines, line) == Cardinality({k \in 1..Len(lines) : lines[k] = line})

\* c_pair : c_left "<glue>" c_right ;
InlineGluePair(c, glue) ==
    c \o <<"_", "p", "a", "i", "r", " ", ":", " ">>
      \o c \o <<"_", "l", "e", "f", "t", " ">> \o quote_grammar(glue) \o <<" ">>
      \o c \o <<"_", "r", "i", "g", "h", "t", " ", ";">>

\* c_pair : c_left _glue c_right ;
GluePair(c) ==
    c \o <<"_", "p", "a", "i", "r", " ", ":", " ">>
      \o c \o <<"_", "l", "e", "f", "t", " ", "_", "g", "l", "u", "e", " ">>
      \o c \o <<"_", "r", "i", "g", "h", "t", " ", ";">>

\* C6 as claimed: for each top-level category c the output holds exactly one pair
\* production, c_pair : c_left <glue> c_right ; with <glue> the double-quoted literal
\* of metadata.glue (for the example: greeting_pair : greeting_left " " greeting_right ;)
C6_InlineGlue ==
    Compiled =>
        \A c \in Range(grammar_toml.metadata.top_level_categories) :
            Occurrences(compiled_grammar, InlineGluePair(c, grammar_toml.metadata.glue)) = 1

\* C6 amended: for each element c of top_level_categories, in the declared order, the
\* output holds one pair production c_pair : c_left _glue c_right ; (a category listed
\* k times gets k of them), where _glue is the nonterminal that the line
\* _glue : <double-quoted literal of metadata.glue> ; defines; for the example the
\* output holds greeting_pair : greeting_left _glue greeting_right ; and _glue : " " ;
C6_PairProductions ==
    Compiled =>
        LET top == grammar_toml.metadata.top_level_categories
        IN  /\ Len(compiled_grammar) >= Len(top) + 7
            /\ compiled_grammar[5]
                  = <<"_", "g", "l", "u", "e", " ", ":", " ">>
                        \o quote_grammar(grammar_toml.metadata.glue) \o <<" ", ";">>
            /\ \A k \in 1..Len(top) : compiled_grammar[6 + k] = GluePair(top[k])
            /\ \A c \in Range(top) \cup {CatA, CatB, Greeting} :
                  Occurrences(compiled_grammar, GluePair(c)) = Count(top, c)
            /\ grammar_toml = ExampleToml =>
                  /\ Occurrences(compiled_grammar, GluePair(Greeting)) = 1
                  /\ Occurrences(compiled_grammar,
                                 <<"_", "g", "l", "u", "e", " ", ":", " ", "\"", " ", "\"", " ", ";">>) = 1

\* C6 witness: the example was compiled
C6_Witness == Compiled /\ grammar_toml = ExampleToml

StrictlyAscending(t) == \A k \in 1..(Len(t) - 1) : StrLt(t[k], t[k + 1])

\* C7 as claimed: validate_grammar accepts a document only if its
\* top_level_categories are strictly ascending
C7_StrictTopLevel ==
    Accepted => StrictlyAscending(grammar_toml.metadata.top_level_categories)

FlagKeys == {[flags |-> "lefts_flags", phrases |-> "lefts"],
             [flags |-> "rights_flags", phrases |-> "rights"]}

AddKeys == {[add |-> "lefts_add_categories", phrases |-> "lefts"],
            [add |-> "rights_add_categories", phrases |-> "rights"]}

DeclaredFlags(toml) == DOMAIN Get(toml.metadata, "flags", <<>>)

\* invariant 4 is broken: a flags list of another length than the phrases, an
\* undeclared flag, or a flag set that is not sorted
FlagViolation(toml) ==
    \E e \in Range(toml.entries) : \E key \in FlagKeys :
        /\ key.flags \in DOMAIN e
        /\ \/ Len(e[key.flags]) # Len(e[key.phrases])
           \/ \E set \in Range(e[key.flags]) :
                 \/ ~Ascending(set)
                 \/ \E f \in Range(set) : f \notin DeclaredFlags(toml)

\* invariant 5 is broken: an add-categories list of another length than the phrases,
\* a category set that is not sorted, or one that holds the entry's own category
CategoryViolation(toml) ==
    \E e \in Range(toml.entries) : \E key \in AddKeys :
        /\ key.add \in DOMAIN e
        /\ \/ Len(e[key.add]) # Len(e[key.phrases])
           \/ \E set \in Range(e[key.add]) : ~Ascending(set) \/ e.category \in Range(set)

\* (a) an entry's category is smaller than that of the entry before it
CategoryDescends(entries) ==
    \E k \in 2..Len(entries) : StrLt(entries[k].category, entries[k - 1].category)

\* (b) inside a run of consecutive entries of one category, an entry's first left is,
\* lower-cased, at most the first left of the nearest earlier entry of the run with lefts
FirstLeftNotAbove(entries) ==
    \E j \in 1..Len(entries) : \E k \in (j + 1)..Len(entries) :
        /\ \A m \in j..k : entries[m].category = entries[k].category
        /\ entries[j].lefts # <<>>
        /\ entries[k].lefts # <<>>
        /\ \A m \in (j + 1)..(k - 1) : entries[m].lefts = <<>>
        /\ StrLe(lower(entries[k].lefts[1]), lower(entries[j].lefts[1]))

\* (c) a lefts or rights list is not ascending once lower-cased
ListDescends(entries) ==
    \E e \in Range(entries) : \E phrases \in {e.lefts, e.rights} :
        \E k \in 1..(Len(phrases) - 1) : StrLt(lower(phrases[k + 1]), lower(phrases[k]))

NoOtherViolation(toml) ==
    /\ StrictlyAscending(toml.metadata.top_level_categories)
    /\ ~FlagViolation(toml)
    /\ ~CategoryViolation(toml)

\* C8: for a document with no other violation, validate_grammar raises a sorting error
\* exactly when (a), (b) or (c) holds; the first lefts compared in (b) are always of
\* entries of one run of a single category.
C8_SortingErrorIff ==
    (ValidateRan /\ NoOtherViolation(grammar_toml)) =>
        ((pc = "failed" /\ err = "sorting error")
            <=> \/ CategoryDescends(grammar_toml.entries)
                \/ FirstLeftNotAbove(grammar_toml.entries)
                \/ ListDescends(grammar_toml.entries))

\* C8 witness: three entries of one category, the second without lefts; the third's
\* first left is not above the first's, and nothing else is wrong
C8_Witness ==
    /\ pc = "failed"
    /\ err = "sorting error"
    /\ NoOtherViolation(grammar_toml)
    /\ Len(grammar_toml.entries) = 3
    /\ grammar_toml.entries[2].lefts = <<>>
    /\ FirstLeftNotAbove(grammar_toml.entries)
    /\ ~CategoryDescends(grammar_toml.entries)
    /\ ~ListDescends(grammar_toml.entries)

UsedFlags(toml) ==
    UNION {UNION {UNION {Range(set) : set \in Range(e[key.flags])}
                  : key \in {key \in FlagKeys : key.flags \in DOMAIN e}}
           : e \in Range(toml.entries)}

\* C9: validate_grammar rejects every document in which a present flags list has
\* another length than its phrase list, or a flag set names a flag that is no key of
\* metadata.flags (any flag, when metadata has no flags), or a flag set is not sorted;
\* so in every accepted document each flag used is a key of metadata.flags.
C9_FlagsRejected ==
    /\ (ValidateRan /\ FlagViolation(grammar_toml)) =>
          (pc = "failed" /\ err \in {"sorting error", "flag error", "category error",
                                     "metadata.top_level_categories is not sorted"})
    /\ Accepted => UsedFlags(grammar_toml) \subseteq DeclaredFlags(grammar_toml)

\* C9 witness: metadata has no flags, the rights name one, and nothing else is wrong
C9_Witness ==
    /\ pc = "failed"
    /\ err = "flag error"
    /\ "flags" \notin DOMAIN grammar_toml.metadata
    /\ \E e \in Range(grammar_toml.entries) :
          /\ "rights_flags" \in DOMAIN e
          /\ Len(e.rights_flags) = Len(e.rights)
          /\ \E set \in Range(e.rights_flags) : set # <<>> /\ Ascending(set)
    /\ ~CategoryViolation(grammar_toml)

\* C10: validate_grammar rejects every document in which a present add-categories list
\* has another length than its phrase list, or an add-category set is not sorted or
\* holds the entry's own category; so in every accepted document no phrase is fanned
\* out to the category of its own entry.
C10_AddCategoriesRejected ==
    /\ (ValidateRan /\ CategoryViolation(grammar_toml)) =>
          (pc = "failed" /\ err \in {"sorting error", "flag error", "category error",
                                     "metadata.top_level_categories is not sorted"})
    /\ Accepted =>
          \A e \in Range(grammar_toml.entries) : \A key \in AddKeys :
              key.add \in DOMAIN e =>
                  \A set \in Range(e[key.add]) : e.category \notin Range(set)

\* C10 witness: a right phrase lists its entry's own category, in a sorted set of the
\* right length, and validation failed
C10_Witness ==
    /\ pc = "failed"
    /\ err = "category error"
    /\ ~FlagViolation(grammar_toml)
    /\ \E e \in Range(grammar_toml.entries) :
          /\ "rights_add_categories" \in DOMAIN e
          /\ "lefts_add_categories" \notin DOMAIN e
          /\ Len(e.rights_add_categories) = Len(e.rights)
          /\ \E set \in Range(e.rights_add_categories) :
                Ascending(set) /\ e.category \in Range(set)

\* an ordering invariant (1-3) is broken
OrderingViolation(toml) ==
    \/ ~Ascending(toml.metadata.top_level_categories)
    \/ CategoryDescends(toml.entries)
    \/ FirstLeftNotAbove(toml.entries)
    \/ ListDescends(toml.entries)

\* the messages that report a sorting error
SortingKind == {"sorting error", "metadata.top_level_categories is not sorted"}

\* validate_grammar raised for the current input
Rejected == pc = "failed" /\ err \notin {"load error", "KeyError"}

\* C11 as claimed: a validation failure is reported under the kind of the violated
\* rule: when the only rules the document breaks are ordering invariants 1-3 the error
\* is a sorting error; when they are flag rules (length mismatch, undeclared flag,
\* unsorted flag set) it is a flag error; when they are add-categories rules (length
\* mismatch of lefts or of rights, unsorted set, own category) it is a category error.
C11_ErrorKinds ==
    Rejected =>
        /\ (~FlagViolation(grammar_toml) /\ ~CategoryViolation(grammar_toml))
              => err \in SortingKind
        /\ (~OrderingViolation(grammar_toml) /\ ~CategoryViolation(grammar_toml))
              => err = "flag error"
        /\ (~OrderingViolation(grammar_toml) /\ ~FlagViolation(grammar_toml))
              => err = "category error"

\* the literal the quoting rule prescribes, built from the end of the text
RECURSIVE EscapedFromEnd(_)
EscapedFromEnd(s) ==
    IF s = <<>> THEN <<>>
    ELSE LET c == s[Len(s)]
             init == EscapedFromEnd(SubSeq(s, 1, Len(s) - 1))
         IN  IF c = "\\" THEN init \o <<"\\", "\\">>
             ELSE IF c = "\"" THEN init \o <<"\\", "\"">>
             ELSE Append(init, c)

\* reading a literal back: drop the enclosing quotes, and take the character after
\* each backslash as it is
RECURSIVE Unescape(_)
Unescape(body) ==
    IF body = <<>> THEN <<>>
    ELSE IF Head(body) = "\\" /\ Len(body) >= 2
    THEN <<body[2]>> \o Unescape(SubSeq(body, 3, Len(body)))
    ELSE <<Head(body)>> \o Unescape(Tail(body))

Unquote(literal) == Unescape(SubSeq(literal, 2, Len(literal) - 1))

IsRuleLiteral(literal, s) ==
    /\ Len(literal) >= 2
    /\ literal[1] = "\""
    /\ literal[Len(literal)] = "\""
    /\ SubSeq(literal, 2, Len(literal) - 1) = EscapedFromEnd(s)
    /\ Len(literal) = 2 + Len(s) + Cardinality({k \in 1..Len(s) : s[k] \in {"\\", "\""}})
    /\ Unquote(literal) = s

\* C12: quote_grammar(s) and grammar_quote(s) are each a double quote, the characters
\* of s in order with every backslash doubled and every double quote preceded by a
\* backslash and nothing else altered, and a double quote; the two agree on every s;
\* and undoing the escapes of the result recovers s, so the quoting is injective.
C12_QuotingRule ==
    /\ quote_grammar_ret # None => IsRuleLiteral(quote_grammar_ret[1], text_in)
    /\ grammar_quote_ret # None => IsRuleLiteral(grammar_quote_ret[1], text_in)
    /\ (quote_grammar_ret # None /\ grammar_quote_ret # None)
          => quote_grammar_ret = grammar_quote_ret

\* C12 witness: both functions quoted a text that holds a backslash followed by a
\* double quote and an ordinary character
C12_Witness ==
    /\ quote_grammar_ret # None
    /\ grammar_quote_ret # None
    /\ \E k \in 1..(Len(text_in) - 1) : text_in[k] = "\\" /\ text_in[k + 1] = "\""
    /\ \E k \in 1..Len(text_in) : text_in[k] = "a"

\* the (category, role, text, options) tuples the entries of a document contribute
Contributions(toml) ==
    UNION {{<<c, "left", part>> :
               part \in Contributed(toml, "lefts", "lefts_flags", "lefts_add_categories", c)}
           \cup
           {<<c, "right", part>> :
               part \in Contributed(toml, "rights", "rights_flags", "rights_add_categories", c)}
           : c \in CatNames}

BothCompiled == line_seqs[1] # None /\ line_seqs[2] # None

\* C13: compile_grammar is deterministic and independent of insertion order: whatever
\* order the sets are iterated in, compiling a document yields the same lines every
\* time, and two documents with the same grammar name and metadata whose entries
\* contribute the same (category, role, text, options) tuples yield the same lines,
\* whatever the order of the entries, of the phrases in them, or of repetitions.
C13_OrderIndependent ==
    /\ \A k \in 1..2 :
          line_seqs[k] # None =>
              /\ line_seqs[k][1].raised = NoError
              /\ line_seqs[k][1].ret
                    = compile_grammar(PairGrammarName, grammar_specs[k]).ret
    /\ (BothCompiled /\ Contributions(grammar_specs[1]) = Contributions(grammar_specs[2]))
          => line_seqs[1] = line_seqs[2]

\* C13 witness: two documents were compiled that contribute the same tuples, one from
\* a single entry that fans two phrases out to the other category and repeats nothing,
\* the other listing the same phrases in the opposite order
C13_Witness ==
    /\ BothCompiled
    /\ grammar_specs[1] # grammar_specs[2]
    /\ Contributions(grammar_specs[1]) = Contributions(grammar_specs[2])
    /\ grammar_specs[1].entries[1].lefts = << <<"a">>, <<"B">> >>
    /\ grammar_specs[2].entries[1].lefts = << <<"B">>, <<"a">> >>
    /\ "lefts_add_categories" \in DOMAIN grammar_specs[1].entries[1]

\* C13 witness for entries: a phrase fanned out by one entry in the first document is
\* contributed by two entries in the second
C13_WitnessEntries ==
    /\ BothCompiled
    /\ Contributions(grammar_specs[1]) = Contributions(grammar_specs[2])
    /\ Len(grammar_specs[1].entries) = 1
    /\ Len(grammar_specs[2].entries) = 2
    /\ "lefts_add_categories" \in DOMAIN grammar_specs[1].entries[1]

\* the path with its trailing extension (whatever its case) replaced by .grammar, or
\* with .grammar appended when it does not end in the extension
OutputPathFor(path, extension) ==
    IF EndsWith(lower(path), extension)
    THEN SubSeq(path, 1, Len(path) - Len(extension)) \o DotGrammar
    ELSE path \o DotGrammar

\* the base name of the output file without its .grammar extension
RootNameFor(outputPath) ==
    LET slashes == {k \in 1..Len(outputPath) : outputPath[k] = "/"}
        start == IF slashes = {} THEN 1
                 ELSE 1 + CHOOSE k \in slashes : \A m \in slashes : m <= k
    IN  SubSeq(outputPath, start, Len(outputPath) - Len(DotGrammar))

\* C14 as claimed: for every input path, the output path is the input path with its
\* trailing extension (.toml for toml2grammar, .tsv for tsv2grammar, in any case)
\* replaced by .grammar, or with .grammar appended when the input does not end in that
\* extension, and the grammar's root name is the base name of that output file
\* without its .grammar extension.
C14_DerivedPaths ==
    /\ pc = "validate" =>
          /\ grammar_path = OutputPathFor(argv[1], DotToml)
          /\ grammar_name = RootNameFor(grammar_path)
    /\ tsv_pc = "read" =>
          /\ tsv_grammar_path = OutputPathFor(tsv_path, DotTsv)
          /\ tsv_grammar_name = RootNameFor(tsv_grammar_path)

\* the output paths alone are as claimed
OutputPathsDerived ==
    /\ pc = "validate" => grammar_path = OutputPathFor(argv[1], DotToml)
    /\ tsv_pc = "read" => tsv_grammar_path = OutputPathFor(tsv_path, DotTsv)

\* the name line of a role production is followed by at least one alternative
HasAlternative(lines, k) ==
    /\ k < Len(lines)
    /\ StartsWith(lines[k + 1], <<" ", " ", " ", " ", ":">>)

IsNameLine(line) == EndsWith(line, <<"_", "l", "e", "f", "t">>) \/ EndsWith(line, <<"_",
      "r", "i", "g", "h", "t">>)

\* C15 as claimed: in the output compiled from an accepted document every nonterminal
\* that is referenced is defined exactly once: each top-level category c has exactly
\* one c_pair production, one c_left and one c_right production, the _glue production
\* is there once, and no role production has zero alternatives.
C15_NonterminalsDefined ==
    Compiled =>
        /\ \A c \in Range(grammar_toml.metadata.top_level_categories) :
              /\ Occurrences(compiled_grammar, GluePair(c)) = 1
              /\ Occurrences(compiled_grammar, c \o <<"_", "l", "e", "f", "t">>) = 1
              /\ Occurrences(compiled_grammar, c \o <<"_", "r", "i", "g", "h", "t">>) = 1
        /\ Cardinality({k \in 1..Len(compiled_grammar) :
                            StartsWith(compiled_grammar[k], <<"_", "g", "l", "u", "e", " ",
                                  ":", " ">>)}) = 1
        /\ \A k \in (HeaderLen + 1)..Len(compiled_grammar) :
              IsNameLine(compiled_grammar[k]) => HasAlternative(compiled_grammar, k)

\* what does hold: the pair productions of the declared categories and the _glue
\* production are emitted, and every role production emitted has an alternative
EmittedProductionsSound ==
    Compiled =>
        /\ \A c \in Range(grammar_toml.metadata.top_level_categories) :
              Occurrences(compiled_grammar, GluePair(c)) >= 1
        /\ Cardinality({k \in 1..Len(compiled_grammar) :
                            StartsWith(compiled_grammar[k], <<"_", "g", "l", "u", "e", " ",
                                  ":", " ">>)}) = 1
        /\ \A k \in (HeaderLen + 1)..Len(compiled_grammar) :
              IsNameLine(compiled_grammar[k]) => HasAlternative(compiled_grammar, k)

\* the lines generate_grammar wrote
TsvWritten == SplitLines(tsv_fs[tsv_grammar_path])

\* the line after the name line of a production is an alternative
TsvHasAlternative(lines, k) ==
    /\ k < Len(lines)
    /\ StartsWith(lines[k + 1], <<" ", " ", " ", " ", ":">>)

\* the production c_piece is in the output, once, with at least one alternative
TsvProductionEmitted(lines, c, piece) ==
    /\ Occurrences(lines, c \o <<"_">> \o piece) = 1
    /\ \A k \in 1..Len(lines) :
          lines[k] = c \o <<"_">> \o piece => TsvHasAlternative(lines, k)

\* the categories that a row of the input gives a non-empty head (tail) for
Populated(d) == {c \in DOMAIN d : d[c] # <<>>}

\* C16 as claimed: every category with at least one non-empty head or tail in the
\* input appears in the output of generate_grammar, with a production for each role it
\* populates, and every production emitted has at least one alternative; a category
\* with only heads or only tails still gets its single-sided production.
C16_SingleSided ==
    tsv_pc = "done" =>
        /\ \A c \in Populated(category_to_heads) :
              TsvProductionEmitted(TsvWritten, c, <<"h", "e", "a", "d">>)
        /\ \A c \in Populated(category_to_tails) :
              TsvProductionEmitted(TsvWritten, c, <<"t", "a", "i", "l">>)
        /\ \A k \in 1..Len(TsvWritten) :
              (EndsWith(TsvWritten[k], <<"_", "h", "e", "a", "d">>) \/ EndsWith(TsvWritten[k], <<"_", "t", "a", "i", "l">>))
                  => TsvHasAlternative(TsvWritten, k)

\* what does hold: a category with a head gets both productions, its head production
\* with an alternative
HeadedCategoriesEmitted ==
    tsv_pc = "done" =>
        \A c \in Populated(category_to_heads) :
            /\ TsvProductionEmitted(TsvWritten, c, <<"h", "e", "a", "d">>)
            /\ Occurrences(TsvWritten, c \o <<"_", "t", "a", "i", "l">>) = 1

\* the four bytes of n, most significant first
BigEndian4(n) == [k \in 1..4 |-> (n \div (256 ^ (4 - k))) % 256]

\* the number four bytes stand for, most significant first
BigEndianValue(b) == b[1] * 16777216 + b[2] * 65536 + b[3] * 256 + b[4]

\* the request: what is to be on the socket before the client waits for the answer
WikiRequest ==
    START_MAGIC \o BigEndian4(Len(Utf8(title))) \o Utf8(title)
        \o BigEndian4(Len(Utf8(wikitext))) \o Utf8(wikitext)

IsPrefix(s, t) == Len(s) <= Len(t) /\ s = SubSeq(t, 1, Len(s))

\* the response length and exactly that many response bytes have been received
ResponseReceived ==
    /\ Len(sock_in) >= 4
    /\ xhtml_length_bytes = SubSeq(sock_in, 1, 4)
    /\ received = 4 + BigEndianValue(xhtml_length_bytes)
    /\ received <= Len(sock_in)
    /\ xhtml_bytes = SubSeq(sock_in, 5, received)

ZeroTransfer == {"zero bytes sent on socket", "zero bytes received on socket"}

\* C17: whatever positive amounts the send calls accept, the bytes on the socket are
\* a prefix of START_MAGIC, the big-endian title length, the title bytes, the
\* big-endian wikitext length, the wikitext bytes and END_MAGIC, so each is sent once
\* and in this order; the client waits for the answer only when the whole request is
\* sent; a byte of END_MAGIC is sent only when the response length and exactly that
\* many response bytes are received; the output file is written only when END_MAGIC
\* is sent, and holds the decoded response; a transfer of zero bytes ends the run
\* with its error, nothing written and no further step.
C17_WireProtocol ==
    /\ IsPrefix(sock_out, WikiRequest \o END_MAGIC)
    /\ wiki_pc \in RecvPhases => sock_out = WikiRequest
    /\ wiki_pc \in RecvPhases => received = (IF wiki_pc = "recv_length" THEN 0 ELSE 4) + position
    /\ Len(sock_out) > Len(WikiRequest) => ResponseReceived
    /\ wiki_pc \in {"send_end_magic", "write", "done"} => ResponseReceived
    /\ wiki_pc \in {"write", "done"} => sock_out = WikiRequest \o END_MAGIC
    /\ output_file # None =>
          /\ wiki_pc = "done"
          /\ sock_out = WikiRequest \o END_MAGIC
          /\ Utf8(output_file[1]) = xhtml_bytes
    /\ wiki_err \in ZeroTransfer =>
          /\ wiki_pc = "failed"
          /\ output_file = None
          /\ sock_out # WikiRequest \o END_MAGIC
    /\ wiki_pc = "failed" => output_file = None /\ ~ENABLED NextWiki

\* a run that ended with the output written, with a title, a wikitext and a response
\* of more than one byte
C17_Witness ==
    /\ wiki_pc = "done"
    /\ output_file # None
    /\ title # <<>>
    /\ wikitext # <<>>
    /\ Len(xhtml_bytes) = 2
    /\ Len(sock_out) = Len(WikiRequest) + 10

\* a run that a zero-byte send ended in the middle of the title bytes
C17_WitnessAborted ==
    /\ wiki_err = "zero bytes sent on socket"
    /\ Len(sock_out) = 15
    /\ total_sent = 1

=============================================================================
